---- MODULE Spec2Model ----
(***************************************************************************)
(* jsonlv (turbo-tail): the log store, the inverted index, the search and  *)
(* filter engine and the websocket coordinator, as a state machine.        *)
(*                                                                         *)
(* Strings that the program inspects character by character (property      *)
(* values, search terms) are sequences of characters, so that lower-casing,*)
(* splitting, substring search and regular expressions are computed.       *)
(* Property names are TLA+ strings, joined with \o as flattenMap joins     *)
(* them.  A JSON value is a tagged record [t, v]:                          *)
(*   "s" string, "n" number (a float64 that holds an integer), "b" boolean,*)
(*   "z" null, "l" array, "o" object (a function from key to JSON value).  *)
(* A read that the program makes without the lock of a concurrent write    *)
(* returns any value the write can leave it, or ends the process with the  *)
(* runtime's fatal error; no step is taken once the process has ended.     *)
(***************************************************************************)
EXTENDS Integers, Sequences, FiniteSets, TLC

VARIABLES
  idCounter,   \* LogManager.idCounter
  logOrder,    \* LogManager.logOrder: sequence of ids
  logStore,    \* LogManager.logStore: id -> [id, Raw]
  logBuffer,   \* LogManager.logBuffer: sequence of raw objects
  index,       \* LogManager.index: property -> value -> sequence of ids
  blacklist,   \* LogManager.blacklist: set of property names mapped to true
  pc,          \* position of each AddLogEntry caller
  local,       \* locals of each AddLogEntry caller: id, raw and, inside its
               \* section, the orders of its ranges (ords), the keys
               \* addToIndex has still to visit (rest) and the arguments of
               \* the callback calls made (drops)
  appended,    \* history: the raw object of every id assigned so far, by id
  req,         \* the arguments a reader calls SearchLogs and GetLastLogs with
  ret,         \* the last completed call and what it returned
  wsClients,   \* the registry: the connections that have a Client in the map
  client,      \* Client of each connection: [searchPayload, indexCounts]
  conn,        \* each connection: "none", "open", "gone" (peer lost),
               \* "failed" (a write on it returned an error), "closed"
  hpc,         \* position of each connection's wsHandler; "off" before the
               \* upgrade and after the handler returned, "panicked" after
               \* a panic ended it
  hreq,        \* req.Payload held by each wsHandler
  hres,        \* searchLogsResult held by each wsHandler
  hout,        \* the message each wsHandler has encoded in wsSend and not written
  inbox,       \* messages a client has written that its handler has not read
  csent,       \* history: how many messages the peers have written
  sent,        \* the messages the last coordinator step delivered to each peer
  bpc,         \* wsBroadcastLoop: "loop", "recv" (blocked at the channel), "deliver"
  bmsg,        \* the message wsBroadcastLoop took from wsBroadcast
  brange,      \* wsBroadcastLoop's range over wsClients: [seen, cur]
  tick,        \* the message statusBroadcastLoop has built and not offered
  flush,       \* sendBufferedLogs: where it is (pc), the batch it drained
               \* (Logs), its range over wsClients (seen, cur), the message
               \* it has encoded (msg), the entry increaseClientIndexCounts
               \* is at (k) and the map it was called with (gen)
  nSetSearch,  \* history: set_search messages each handler has read
  nSetLogs,    \* history: set_logs messages delivered to each connection
  received,    \* history: the entries written to each connection, those of
               \* its last set_logs (snapshot) and those of the add_logs
               \* written after it (added)
  page,        \* each browser page running app.js: whether the script has
               \* run (loaded), its variables ws, reconnectInterval and
               \* logs, and the sockets it has made that never reach the
               \* server and have not reported it (failing)
  socket,      \* the WebSocket behind each connection a page has made: its
               \* page, its readyState and the set_logs and add_logs
               \* messages written to it that its onmessage has not handled
  lk,          \* the goroutines at the grain of their locks: where each one
               \* is, who holds logStoreMu, wsClientsMu and each writeMu, and
               \* the connections whose counts sendBufferedLogs increased
               \* while their handler encoded them (grew)
  gic          \* the call of GetIndexCounts in progress

coVars == <<wsClients, client, conn, hpc, hreq, hres, hout, inbox, csent, sent, bpc, bmsg, brange, tick, flush,
            nSetSearch, nSetLogs, received, page, socket, lk>>

wsVars == <<coVars, gic>>

vars == <<idCounter, logOrder, logStore, logBuffer, index, blacklist, pc, local, appended, req, ret, wsVars>>

(***************************************************************************)
(* Bounds of the model.  The three limits are LogManagerConfig values,     *)
(* scaled down.                                                            *)
(***************************************************************************)
MaxLogs == 2
MaxIndexValues == 2
MaxIndexValueLength == 2
MaxAppends == 4
MaxReadAppends == 3
MaxConns == 2
MaxClientMsgs == 2
MaxWsAppends == 1
MaxFlushAppends == 2
MaxPages == 1
MaxFailing == 1
MaxPageAppends == 2
MaxPageMsgs == 1

(***************************************************************************)
(* Maps (Go map[K]V) as functions with a finite domain.                    *)
(***************************************************************************)
EmptyMap == <<>>

MapSet(m, k, v) == [x \in (DOMAIN m) \cup {k} |-> IF x = k THEN v ELSE m[x]]

MapDelete(m, k) == [x \in (DOMAIN m) \ {k} |-> m[x]]

\* m[k] of a Go map[string]string: the zero value "" when k is absent
MapGetStr(m, k) == IF k \in DOMAIN m THEN m[k] ELSE <<>>

\* the functions f on the domain of F with f[x] in the set F[x] for every x
RECURSIVE Choices(_)
Choices(F) ==
  IF DOMAIN F = {} THEN {EmptyMap}
  ELSE LET x == CHOOSE y \in DOMAIN F : TRUE
       IN {MapSet(f, x, v) : f \in Choices(MapDelete(F, x)), v \in F[x]}

(***************************************************************************)
(* Go iterates a map in an order that differs from one range statement to  *)
(* the next.  The order of one range statement over a map is a permutation *)
(* of the map's keys.  flattenMap runs one range statement for the object  *)
(* it is given and one for every object nested in it: its orders form a    *)
(* tree [keys, sub], keys the order of the range over the object and       *)
(* sub[k] the tree of the object under key k.                              *)
(***************************************************************************)
RECURSIVE Perms(_)
Perms(S) ==
  IF S = {} THEN {<<>>}
  ELSE UNION {{<<x>> \o p : p \in Perms(S \ {x})} : x \in S}

\* the keys of m in one fixed order, for a range whose iterations each write
\* the slot of their own key only, so that every order gives the same result
RangeKeys(m) == CHOOSE p \in Perms(DOMAIN m) : TRUE

\* every order the range statements of flattenMap(data) can take
RECURSIVE RangeOrders(_)
RangeOrders(data) ==
  {[keys |-> p, sub |-> s] :
     p \in Perms(DOMAIN data),
     s \in Choices([k \in {x \in DOMAIN data : data[x].t = "o"} |-> RangeOrders(data[k].v)])}

(***************************************************************************)
(* Characters.  A character is a one-character TLA+ string; a code point   *)
(* outside printable ASCII and the four escapes \t \n \f \r is the string  *)
(* of its name, "U+00A0", and so is the grave accent, "U+0060".  Code      *)
(* gives the code point of a character.                                    *)
(***************************************************************************)
Ascii ==
  <<" ", "!", "\"", "#", "$", "%", "&", "'", "(", ")", "*", "+", ",", "-", ".", "/",
    "0", "1", "2", "3", "4", "5", "6", "7", "8", "9", ":", ";", "<", "=", ">", "?",
    "@", "A", "B", "C", "D", "E", "F", "G", "H", "I", "J", "K", "L", "M", "N", "O",
    "P", "Q", "R", "S", "T", "U", "V", "W", "X", "Y", "Z", "[", "\\", "]", "^", "_",
    "U+0060", "a", "b", "c", "d", "e", "f", "g", "h", "i", "j", "k", "l", "m", "n", "o",
    "p", "q", "r", "s", "t", "u", "v", "w", "x", "y", "z", "{", "|", "}", "~">>

\* bell, vertical tab, no-break space, E acute (capital and small), long s,
\* line separator, paragraph separator, Kelvin sign
NamedCodes ==
  ("\t" :> 9) @@ ("\n" :> 10) @@ ("\f" :> 12) @@ ("\r" :> 13)
    @@ ("U+0007" :> 7) @@ ("U+000B" :> 11) @@ ("U+00A0" :> 160)
    @@ ("U+00C9" :> 201) @@ ("U+00E9" :> 233) @@ ("U+017F" :> 383)
    @@ ("U+2028" :> 8232) @@ ("U+2029" :> 8233) @@ ("U+212A" :> 8490)

Code(c) == IF c \in DOMAIN NamedCodes THEN NamedCodes[c]
           ELSE 31 + (CHOOSE i \in 1..Len(Ascii) : Ascii[i] = c)

(***************************************************************************)
(* Strings                                                                 *)
(***************************************************************************)
Digits == <<"0", "1", "2", "3", "4", "5", "6", "7", "8", "9">>

\* the decimal digits of n >= 0
RECURSIVE NatToStr(_)
NatToStr(n) == IF n < 10 THEN <<Digits[n + 1]>>
               ELSE NatToStr(n \div 10) \o <<Digits[(n % 10) + 1]>>

\* strconv.FormatFloat(v, 'f', -1, 64) of an integer
IntToStr(n) == IF n < 0 THEN <<"-">> \o NatToStr(0 - n) ELSE NatToStr(n)

\* unicode.ToLower of one character: the capital ASCII letters, E acute and
\* the Kelvin sign have a lower-case form, the other characters of the model
\* are mapped to themselves
LowerChar(c) ==
  CASE c = "U+00C9" -> "U+00E9"
    [] c = "U+212A" -> "k"
    [] c \in DOMAIN NamedCodes -> c
    [] OTHER -> IF Code(c) >= 65 /\ Code(c) <= 90 THEN Ascii[Code(c) - 31 + 32] ELSE c

\* strings.ToLower(s)
ToLower(s) == [i \in 1..Len(s) |-> LowerChar(s[i])]

\* strings.Contains(s, sub)
Contains(s, sub) ==
  \E i \in 0..(Len(s) - Len(sub)) : \A j \in 1..Len(sub) : s[i + j] = sub[j]

\* len(s) of a Go string: the bytes of its UTF-8 encoding
RECURSIVE ByteLen(_)
ByteLen(s) ==
  IF s = <<>> THEN 0
  ELSE (IF Code(Head(s)) < 128 THEN 1 ELSE IF Code(Head(s)) < 2048 THEN 2 ELSE 3)
         + ByteLen(Tail(s))

\* slices.Contains(list, x)
SlicesContains(list, x) == \E i \in 1..Len(list) : list[i] = x

\* a < b for two strings, byte by byte as sort.Strings compares them; the
\* characters compared are ASCII
RECURSIVE StringLess(_, _)
StringLess(a, b) ==
  IF b = <<>> THEN FALSE
  ELSE IF a = <<>> THEN TRUE
  ELSE IF Head(a) = Head(b) THEN StringLess(Tail(a), Tail(b))
  ELSE Code(Head(a)) < Code(Head(b))

(***************************************************************************)
(* toString and flattenMap                                                 *)
(***************************************************************************)
\* the digits of n without the zeros at their end
RECURSIVE StripZeros(_)
StripZeros(ds) ==
  IF Len(ds) > 1 /\ ds[Len(ds)] = "0" THEN StripZeros(SubSeq(ds, 1, Len(ds) - 1)) ELSE ds

\* fmt's %v of a float64 that holds the integer n, the verb %g with the
\* shortest digits: the exponent form from 1e+06 on
FormatG(n) ==
  LET ds == NatToStr(IF n < 0 THEN 0 - n ELSE n)
      exp == Len(ds) - 1
      mant == StripZeros(ds)
      sign == IF n < 0 THEN <<"-">> ELSE <<>>
  IN IF exp < 6 THEN sign \o ds
     ELSE sign \o <<mant[1]>>
            \o (IF Len(mant) > 1 THEN <<".">> \o Tail(mant) ELSE <<>>)
            \o <<"e", "+">> \o (IF exp < 10 THEN <<"0">> ELSE <<>>) \o NatToStr(exp)

\* the characters of the property names that the model's objects use
KeyText ==
  ("a" :> <<"a">>) @@ ("a.b" :> <<"a", ".", "b">>) @@ ("b" :> <<"b">>)
    @@ ("ctx" :> <<"c", "t", "x">>) @@ ("ctx.id" :> <<"c", "t", "x", ".", "i", "d">>)
    @@ ("id" :> <<"i", "d">>) @@ ("level" :> <<"l", "e", "v", "e", "l">>)
    @@ ("msg" :> <<"m", "s", "g">>) @@ ("nil" :> <<"n", "i", "l">>)
    @@ ("ok" :> <<"o", "k">>) @@ ("tags" :> <<"t", "a", "g", "s">>)
    @@ ("user" :> <<"u", "s", "e", "r">>)

\* the keys of m in ascending order, as fmt prints a map
SortedKeys(m) ==
  CHOOSE p \in Perms(DOMAIN m) :
    \A i \in 1..(Len(p) - 1) : StringLess(KeyText[p[i]], KeyText[p[i + 1]])

RECURSIVE ElemString(_)
RECURSIVE JoinElems(_)
RECURSIVE JoinPairs(_, _)
\* fmt's %v of a value inside an array or inside a map
ElemString(e) ==
  CASE e.t = "s" -> e.v
    [] e.t = "n" -> FormatG(e.v)
    [] e.t = "b" -> IF e.v THEN <<"t", "r", "u", "e">> ELSE <<"f", "a", "l", "s", "e">>
    [] e.t = "z" -> <<"<", "n", "i", "l", ">">>
    [] e.t = "l" -> <<"[">> \o JoinElems(e.v) \o <<"]">>
    [] OTHER -> <<"m", "a", "p", "[">> \o JoinPairs(e.v, SortedKeys(e.v)) \o <<"]">>

\* the elements of a slice, a space between two of them
JoinElems(l) == IF l = <<>> THEN <<>>
                ELSE IF Len(l) = 1 THEN ElemString(l[1])
                ELSE ElemString(l[1]) \o <<" ">> \o JoinElems(Tail(l))

\* key:value for the keys of m in the order keys, a space between two pairs
JoinPairs(m, keys) ==
  IF keys = <<>> THEN <<>>
  ELSE KeyText[Head(keys)] \o <<":">> \o ElemString(m[Head(keys)])
         \o (IF Len(keys) = 1 THEN <<>> ELSE <<" ">> \o JoinPairs(m, Tail(keys)))

\* toString(val), val a value that encoding/json decoded: a string, a
\* float64 (that holds an integer), a bool, nil or, in the default case, a
\* slice
toString(val) == CASE val.t = "s" -> val.v
                   [] val.t = "n" -> IntToStr(val.v)
                   [] val.t = "b" -> IF val.v THEN <<"t", "r", "u", "e">> ELSE <<"f", "a", "l", "s", "e">>
                   [] val.t = "z" -> <<>>
                   [] OTHER -> ElemString(val)

RECURSIVE flattenMapInternal(_, _, _, _)
RECURSIVE flattenMapRange(_, _, _, _, _)
\* the body of the range loop, over the keys still to visit
flattenMapRange(data, keys, out, prefix, ord) ==
  IF keys = <<>> THEN out
  ELSE LET k == Head(keys)
           key == prefix \o k
           out2 == IF data[k].t = "o"
                   THEN flattenMapInternal(data[k].v, out, key \o ".", ord.sub[k])
                   ELSE MapSet(out, key, toString(data[k]))
       IN CHOOSE r \in {flattenMapRange(data, Tail(keys), after, prefix, ord) : after \in {out2}} : TRUE

\* ord.keys is the order in which the range visits the keys of data
flattenMapInternal(data, out, prefix, ord) ==
  flattenMapRange(data, ord.keys, out, prefix, ord)

flattenMap(data, ord) == flattenMapInternal(data, EmptyMap, "", ord)

\* the results flattenMap can give on raw
FlattenResults(raw) == {flattenMap(raw, o) : o \in RangeOrders(raw)}

\* the orders of flattenMap on raw, one for each result it can give: two
\* orders with the same result are the same outcome of the call
FlattenOrders(raw) ==
  {CHOOSE o \in RangeOrders(raw) : flattenMap(raw, o) = f : f \in FlattenResults(raw)}

(***************************************************************************)
(* LogManager: index maintenance (log_manager.go, lines 622 to 724)        *)
(***************************************************************************)
\* variant: a value of any length is indexed
omitIndexValue_AnyLength(bl, propName, propValue) ==
  IF propValue = <<>> THEN TRUE
  ELSE IF propName \in bl THEN TRUE
  ELSE FALSE

\* mutant: the blacklist is not consulted
omitIndexValue_NoBlacklist(bl, propName, propValue) ==
  IF propValue = <<>> THEN TRUE
  ELSE IF ByteLen(propValue) > MaxIndexValueLength THEN TRUE
  ELSE FALSE

\* omitIndexValue reads lm.blacklist, passed as bl
omitIndexValue(bl, propName, propValue) ==
  IF propValue = <<>> THEN TRUE
  ELSE IF ByteLen(propValue) > MaxIndexValueLength THEN TRUE
  ELSE IF propName \in bl THEN TRUE
  ELSE FALSE

\* mutant: the limit is compared with >= instead of >
addToIndexStep_OffByOne(st, entryId, propName, propValue) ==
  IF omitIndexValue(st.blacklist, propName, propValue) THEN st
  ELSE LET valMap0 == IF propName \in DOMAIN st.index THEN st.index[propName] ELSE EmptyMap
           ids0 == IF propValue \in DOMAIN valMap0 THEN valMap0[propValue] ELSE <<>>
           valMap == MapSet(valMap0, propValue, Append(ids0, entryId))
       IN IF Cardinality(DOMAIN valMap) >= MaxIndexValues
          THEN [index |-> MapDelete(st.index, propName),
                blacklist |-> st.blacklist \cup {propName},
                drops |-> Append(st.drops, <<propName>>)]
          ELSE [index |-> MapSet(st.index, propName, valMap),
                blacklist |-> st.blacklist,
                drops |-> st.drops]

\* variant: the property is blacklisted without a call of the callback
addToIndexStep_NoCallback(st, entryId, propName, propValue) ==
  IF omitIndexValue(st.blacklist, propName, propValue) THEN st
  ELSE LET valMap0 == IF propName \in DOMAIN st.index THEN st.index[propName] ELSE EmptyMap
           ids0 == IF propValue \in DOMAIN valMap0 THEN valMap0[propValue] ELSE <<>>
           valMap == MapSet(valMap0, propValue, Append(ids0, entryId))
       IN IF Cardinality(DOMAIN valMap) > MaxIndexValues
          THEN [index |-> MapDelete(st.index, propName),
                blacklist |-> st.blacklist \cup {propName},
                drops |-> st.drops]
          ELSE [index |-> MapSet(st.index, propName, valMap),
                blacklist |-> st.blacklist,
                drops |-> st.drops]

\* One iteration of addToIndex's loop.  st = [index, blacklist, drops]; drops
\* lists the arguments of the DropIndexKeysCallback calls made so far.
addToIndexStep(st, entryId, propName, propValue) ==
  IF omitIndexValue(st.blacklist, propName, propValue) THEN st
  ELSE LET valMap0 == IF propName \in DOMAIN st.index THEN st.index[propName] ELSE EmptyMap
           ids0 == IF propValue \in DOMAIN valMap0 THEN valMap0[propValue] ELSE <<>>
           valMap == MapSet(valMap0, propValue, Append(ids0, entryId))
       IN IF Cardinality(DOMAIN valMap) > MaxIndexValues
          THEN [index |-> MapDelete(st.index, propName),
                blacklist |-> st.blacklist \cup {propName},
                drops |-> Append(st.drops, <<propName>>)]
          ELSE [index |-> MapSet(st.index, propName, valMap),
                blacklist |-> st.blacklist,
                drops |-> st.drops]

\* the loop of addToIndex over the keys still to visit; after is the state
\* one iteration leaves, bound once
RECURSIVE addToIndexRange(_, _, _, _)
addToIndexRange(st, entryId, flat, keys) ==
  IF keys = <<>> THEN st
  ELSE CHOOSE r \in {addToIndexRange(after, entryId, flat, Tail(keys)) :
                       after \in {addToIndexStep(st, entryId, Head(keys), flat[Head(keys)])}} : TRUE

\* keys is the order in which the range visits the keys of flat
addToIndex(st, entryId, flat, keys) ==
  addToIndexRange(st, entryId, flat, keys)

\* One iteration of removeFromIndex's loop, on the index idx.
removeFromIndexStep(idx, entryId, propName, propValue) ==
  IF ByteLen(propValue) > MaxIndexValueLength THEN idx
  ELSE IF propName \notin DOMAIN idx THEN idx
  ELSE LET propValueMap == idx[propName]
           newEntryIds == IF propValue \in DOMAIN propValueMap
                          THEN SelectSeq(propValueMap[propValue], LAMBDA id : id # entryId)
                          ELSE <<>>
           propValueMap2 == IF propValue \notin DOMAIN propValueMap THEN propValueMap
                            ELSE IF Len(newEntryIds) = 0 THEN MapDelete(propValueMap, propValue)
                            ELSE MapSet(propValueMap, propValue, newEntryIds)
       IN IF DOMAIN propValueMap2 = {} THEN MapDelete(idx, propName)
          ELSE MapSet(idx, propName, propValueMap2)

RECURSIVE removeFromIndexRange(_, _, _, _)
removeFromIndexRange(idx, entryId, flat, keys) ==
  IF keys = <<>> THEN idx
  ELSE CHOOSE r \in {removeFromIndexRange(after, entryId, flat, Tail(keys)) :
                       after \in {removeFromIndexStep(idx, entryId, Head(keys), flat[Head(keys)])}} : TRUE

\* the order of the range is bound once
removeFromIndex(idx, entryId, flat) ==
  CHOOSE r \in {removeFromIndexRange(idx, entryId, flat, keys) : keys \in {RangeKeys(flat)}} : TRUE

\* mutant: the evicted id is not deleted from logStore
enforceMaxLogs_KeepsRecord(s, ord) ==
  IF Len(s.logOrder) > MaxLogs
  THEN LET oldest == s.logOrder[1]
       IN IF oldest \in DOMAIN s.logStore
          THEN LET flatOld == flattenMap(s.logStore[oldest].Raw, ord)
               IN [logOrder |-> Tail(s.logOrder),
                   logStore |-> s.logStore,
                   index |-> removeFromIndex(s.index, oldest, flatOld)]
          ELSE [logOrder |-> Tail(s.logOrder), logStore |-> s.logStore, index |-> s.index]
  ELSE s

\* enforceMaxLogs on s = [logOrder, logStore, index]; ord is the order of the
\* range in the flattenMap call it makes; flatOld is its result, bound once.
enforceMaxLogs(s, ord) ==
  IF Len(s.logOrder) > MaxLogs
  THEN LET oldest == s.logOrder[1]
       IN IF oldest \in DOMAIN s.logStore
          THEN CHOOSE r \in {[logOrder |-> Tail(s.logOrder),
                              logStore |-> MapDelete(s.logStore, oldest),
                              index |-> removeFromIndex(s.index, oldest, flatOld)] :
                               flatOld \in {flattenMap(s.logStore[oldest].Raw, ord)}} : TRUE
          ELSE [logOrder |-> Tail(s.logOrder), logStore |-> s.logStore, index |-> s.index]
  ELSE s

GetIndexCounts(idx) ==
  [propName \in DOMAIN idx |-> [v \in DOMAIN idx[propName] |-> Len(idx[propName][v])]]

GetLogsCount(store) == Cardinality(DOMAIN store)

\* variant: the first n ids of the order list instead of the last n
GetLastLogs_FromStart(order, store, n) ==
  LET ids == SubSeq(order, 1, IF Len(order) > n THEN n ELSE Len(order))
      kept == SelectSeq(ids, LAMBDA id : id \in DOMAIN store)
  IN [i \in 1..Len(kept) |-> store[kept[i]].Raw]

\* GetLastLogs(n), n >= 0
GetLastLogs(order, store, n) ==
  LET start == IF Len(order) > n THEN Len(order) - n ELSE 0
      ids == SubSeq(order, start + 1, Len(order))
      kept == SelectSeq(ids, LAMBDA id : id \in DOMAIN store)
  IN [i \in 1..Len(kept) |-> store[kept[i]].Raw]

(***************************************************************************)
(* LogManager: matching and SearchLogs (log_manager.go, lines 517 to 619). *)
(* A SearchPayload is [SearchTerm, Filters]; Filters is [isNil, m], a nil  *)
(* map or the map m from property name to the list of allowed values.      *)
(***************************************************************************)
RECURSIVE lm_logMatchesFilterRange(_, _, _)
lm_logMatchesFilterRange(flat, filter, keys) ==
  IF keys = <<>> THEN TRUE
  ELSE LET propValue == MapGetStr(flat, Head(keys))
           match == SlicesContains(filter[Head(keys)], propValue)
       IN IF ~match THEN FALSE
          ELSE lm_logMatchesFilterRange(flat, filter, Tail(keys))

lm_logMatchesFilter(raw, filter, ord) ==
  IF filter.isNil THEN TRUE
  ELSE lm_logMatchesFilterRange(flattenMap(raw, ord), filter.m, RangeKeys(filter.m))

lm_logMatchesSearch(raw, searchTerm, ord) ==
  IF searchTerm = <<>> THEN TRUE
  ELSE LET term == ToLower(searchTerm)
           flat == flattenMap(raw, ord)
       IN \E k \in DOMAIN flat : Contains(ToLower(flat[k]), term)

\* ords.f and ords.s: the orders of the two flattenMap calls logMatches makes
lm_logMatches(raw, payload, ords) ==
  lm_logMatchesFilter(raw, payload.Filters, ords.f) /\ lm_logMatchesSearch(raw, payload.SearchTerm, ords.s)

\* variant: the matching entries are collected newest first
RECURSIVE lm_FilterLogs_Reversed(_, _, _)
lm_FilterLogs_Reversed(logs, payload, ords) ==
  IF logs = <<>> THEN <<>>
  ELSE IF lm_logMatches(Head(logs), payload, Head(ords))
       THEN lm_FilterLogs_Reversed(Tail(logs), payload, Tail(ords)) \o <<Head(logs)>>
       ELSE lm_FilterLogs_Reversed(Tail(logs), payload, Tail(ords))

\* ords[i]: the orders of the logMatches call on logs[i]
RECURSIVE lm_FilterLogs(_, _, _)
lm_FilterLogs(logs, payload, ords) ==
  IF logs = <<>> THEN <<>>
  ELSE IF lm_logMatches(Head(logs), payload, Head(ords))
       THEN <<Head(logs)>> \o lm_FilterLogs(Tail(logs), payload, Tail(ords))
       ELSE lm_FilterLogs(Tail(logs), payload, Tail(ords))

\* indexCounts[propName][propValue]++, creating what is missing
IncrCount(counts, propName, propValue) ==
  LET m0 == IF propName \in DOMAIN counts THEN counts[propName] ELSE EmptyMap
      c0 == IF propValue \in DOMAIN m0 THEN m0[propValue] ELSE 0
  IN MapSet(counts, propName, MapSet(m0, propValue, c0 + 1))

\* the loop "for propName, propValue := range flat" that counts one entry
RECURSIVE countFlat(_, _, _, _)
countFlat(counts, bl, flat, keys) ==
  IF keys = <<>> THEN counts
  ELSE LET propName == Head(keys)
           next == IF omitIndexValue(bl, propName, flat[propName]) THEN counts
                   ELSE IncrCount(counts, propName, flat[propName])
       IN countFlat(next, bl, flat, Tail(keys))

\* SearchLogs, lines 524 to 541: the counts the result starts from
SearchLogsInitialCounts(globalCounts, filters) ==
  [propName \in DOMAIN globalCounts |->
     [propValue \in DOMAIN globalCounts[propName] |->
        IF propName \in DOMAIN filters.m
        THEN IF SlicesContains(filters.m[propName], propValue) THEN 0
             ELSE globalCounts[propName][propValue]
        ELSE 0]]

\* SearchLogs, lines 544 to 565: the loop from position i down to 1 over
\* m = [order, store, blacklist]; acc = [result, count, newCounts]; ords[i]
\* holds the orders of the three flattenMap calls made for position i
RECURSIVE SearchLogsLoop(_, _, _, _, _, _)
SearchLogsLoop(i, acc, m, searchPayload, maxLogs, ords) ==
  IF i < 1 THEN acc
  ELSE LET entryId == m.order[i]
           matched == /\ entryId \in DOMAIN m.store
                      /\ lm_logMatches(m.store[entryId].Raw, searchPayload, ords[i])
           flat == flattenMap(m.store[entryId].Raw, ords[i].c)
           acc2 == IF matched
                   THEN [result |-> IF acc.count < maxLogs
                                    THEN <<m.store[entryId].Raw>> \o acc.result
                                    ELSE acc.result,
                         count |-> acc.count + 1,
                         newCounts |-> countFlat(acc.newCounts, m.blacklist, flat, RangeKeys(flat))]
                   ELSE acc
       IN SearchLogsLoop(i - 1, acc2, m, searchPayload, maxLogs, ords)

\* variant: the oldest maxLogs matches instead of the most recent ones
SearchLogs_OldestFirst(m, searchPayload, maxLogs, ords) ==
  LET acc0 == [result |-> <<>>, count |-> 0,
               newCounts |-> SearchLogsInitialCounts(GetIndexCounts(m.index), searchPayload.Filters)]
      acc == SearchLogsLoop(Len(m.order), acc0, m, searchPayload, Len(m.order), ords)
      k == IF maxLogs < Len(acc.result) THEN maxLogs ELSE Len(acc.result)
  IN [Logs |-> SubSeq(acc.result, 1, k), IndexCounts |-> acc.newCounts]

\* SearchLogs over the manager state m = [order, store, index, blacklist]
SearchLogs(m, searchPayload, maxLogs, ords) ==
  LET globalCounts == GetIndexCounts(m.index)
      acc0 == [result |-> <<>>, count |-> 0,
               newCounts |-> SearchLogsInitialCounts(globalCounts, searchPayload.Filters)]
      acc == SearchLogsLoop(Len(m.order), acc0, m, searchPayload, maxLogs, ords)
  IN [Logs |-> acc.result, IndexCounts |-> acc.newCounts]

(***************************************************************************)
(* Inputs: the JSON objects fed to AddLogEntry and the queries of readers  *)
(***************************************************************************)
S(x) == [t |-> "s", v |-> x]
N(x) == [t |-> "n", v |-> x]
B(x) == [t |-> "b", v |-> x]
Z == [t |-> "z", v |-> 0]
O(x) == [t |-> "o", v |-> x]

\* a value one character longer than the index accepts
LongValue == [i \in 1..(MaxIndexValueLength + 1) |-> "w"]

RawA == "level" :> S(<<"a">>)
RawB == ("level" :> S(<<"b">>)) @@ ("msg" :> S(<<"A", "b">>))
RawC == ("level" :> S(<<"c">>)) @@ ("msg" :> S(LongValue))
\* three entries that differ in both of their properties
RawAX == ("level" :> S(<<"a">>)) @@ ("msg" :> S(<<"x">>))
RawBY == ("level" :> S(<<"b">>)) @@ ("msg" :> S(<<"y">>))
RawCZ == ("level" :> S(<<"c">>)) @@ ("msg" :> S(<<"z">>))
\* {"a.b": "x", "a": {"b": "y"}}: a literal dotted key beside the nested path
RawDotted == ("a.b" :> S(<<"x">>)) @@ ("a" :> O("b" :> S(<<"y">>)))
\* {"level": "", "ctx": {"id": 7}, "ok": true, "nil": null}
RawMisc == ("level" :> S(<<>>)) @@ ("ctx" :> O("id" :> N(7))) @@ ("ok" :> B(TRUE)) @@ ("nil" :> Z)

Raws == {RawA, RawB, RawC, RawDotted, RawMisc}

NilFilters == [isNil |-> TRUE, m |-> EmptyMap]
Filters(m) == [isNil |-> FALSE, m |-> m]

QueryEmpty == [SearchTerm |-> <<>>, Filters |-> NilFilters]
QueryLevelAB == [SearchTerm |-> <<>>, Filters |-> Filters("level" :> <<<<"a">>, <<"b">>>>)]
QueryTermB == [SearchTerm |-> <<"B">>, Filters |-> Filters(EmptyMap)]
QueryLevelBTermA == [SearchTerm |-> <<"a">>, Filters |-> Filters("level" :> <<<<"b">>>>)]
QueryDotted == [SearchTerm |-> <<"y">>, Filters |-> Filters("a.b" :> <<<<"x">>>>)]
QueryNoValues == [SearchTerm |-> <<>>, Filters |-> Filters("level" :> <<>>)]

Queries == {QueryEmpty, QueryLevelAB, QueryTermB, QueryLevelBTermA, QueryDotted, QueryNoValues}

\* the callers of AddLogEntry: main's read loop is the only one in the program
Callers == {"main"}

NoLocal == [id |-> 0, raw |-> EmptyMap]

\* The runtime ends the process with "fatal error: concurrent map iteration
\* and map write" (or "concurrent map read and map write") when it finds a
\* map read while another goroutine writes it: no goroutine takes a step
\* after it.
Fatal == [op |-> "fatal"]

Running == ret.op # "fatal"

\* logStoreMu is free for a reader: no goroutine is inside the section of
\* AddLogEntry (lines 463 to 471), which holds it exclusively
StoreMuFree == \A t \in DOMAIN pc : pc[t] # "section"

(***************************************************************************)
(* LogManager: the operations as actions                                   *)
(***************************************************************************)
Manager == [order |-> logOrder, store |-> logStore, index |-> index, blacklist |-> blacklist]

\* variant: the id is the number of stored entries plus one
AddLogEntryId_FromCount(t, raw) ==
  /\ Running
  /\ pc[t] = "idle"
  /\ idCounter' = idCounter + 1
  /\ local' = [local EXCEPT ![t] = [id |-> GetLogsCount(logStore) + 1, raw |-> raw]]
  /\ pc' = [pc EXCEPT ![t] = "store"]
  /\ appended' = Append(appended, raw)
  /\ UNCHANGED <<logOrder, logStore, logBuffer, index, blacklist, req, ret, wsVars>>

\* AddLogEntry, lines 457 to 461: the id, under idCounterMu
AddLogEntryId(t, raw) ==
  /\ Running
  /\ pc[t] = "idle"
  /\ idCounter' = idCounter + 1
  /\ local' = [local EXCEPT ![t] = [id |-> idCounter + 1, raw |-> raw]]
  /\ pc' = [pc EXCEPT ![t] = "store"]
  /\ appended' = Append(appended, raw)
  /\ UNCHANGED <<logOrder, logStore, logBuffer, index, blacklist, req, ret, wsVars>>

\* AddLogEntry, lines 461 to 471 on the manager state: store, index, evict.
\* ords.flat is the order of flattenMap(raw), ords.add the order of the range
\* in addToIndex, ords.evict the order of the flattenMap call in
\* enforceMaxLogs; flat, added and kept are the results of flattenMap,
\* addToIndex and enforceMaxLogs, each bound once
AddLogEntryStored(id, raw, ords) ==
  CHOOSE r \in
    UNION {UNION {{[logOrder |-> kept.logOrder, logStore |-> kept.logStore, index |-> kept.index,
                    blacklist |-> added.blacklist, drops |-> added.drops] :
                     kept \in {enforceMaxLogs([logOrder |-> Append(logOrder, id),
                                               logStore |-> MapSet(logStore, id, [id |-> id, Raw |-> raw]),
                                               index |-> added.index], ords.evict)}} :
                   added \in {addToIndex([index |-> index, blacklist |-> blacklist, drops |-> <<>>],
                                         id, flat, ords.add)}} :
            flat \in {flattenMap(raw, ords.flat)}} : TRUE

\* the entry enforceMaxLogs flattens when id is added: the oldest one, or the
\* new one in a store that keeps nothing; an empty object when none is evicted
EvictedRaw(id, raw) ==
  IF Len(logOrder) + 1 <= MaxLogs THEN EmptyMap
  ELSE IF logOrder = <<>> THEN raw
  ELSE IF logOrder[1] \in DOMAIN logStore THEN logStore[logOrder[1]].Raw
  ELSE EmptyMap

\* the orders of one AddLogEntry(raw): the three range statements choose
\* their orders independently of each other
StoreOrders(id, raw) ==
  UNION {[flat : {o}, add : Perms(DOMAIN flattenMap(raw, o)), evict : FlattenOrders(EvictedRaw(id, raw))] :
           o \in FlattenOrders(raw)}

\* what one AddLogEntry(raw) can leave, over the orders of its ranges
StoreResults(id, raw) == {AddLogEntryStored(id, raw, ords) : ords \in StoreOrders(id, raw)}

\* One write of AddLogEntry's section, or one call it makes of the
\* DropIndexKeysCallback: index and blacklist are lm.index and lm.blacklist
\* as the step leaves them, call is the slice handed to the callback (empty
\* when the step is a write), writes is the map the statement writes:
\* "index" for lm.index or one of its buckets, "blacklist" for lm.blacklist,
\* "none" for the call.  A statement that stores what the map already holds
\* is a write of the map all the same.
SectionStep(idx, bl, call, writes) == [index |-> idx, blacklist |-> bl, call |-> call, writes |-> writes]

\* The steps of one iteration of addToIndex's loop: the new bucket of line
\* 642, the id appended to the list of the value at line 645, the bucket
\* deleted at line 648, the property put in lm.blacklist at line 649, the
\* callback called at line 652.
addToIndexSteps(st, entryId, propName, propValue) ==
  IF omitIndexValue(st.blacklist, propName, propValue) THEN <<>>
  ELSE LET made == IF propName \in DOMAIN st.index THEN st.index
                   ELSE MapSet(st.index, propName, EmptyMap)
           ids0 == IF propValue \in DOMAIN made[propName] THEN made[propName][propValue] ELSE <<>>
           valMap == MapSet(made[propName], propValue, Append(ids0, entryId))
       IN (IF propName \in DOMAIN st.index THEN <<>>
           ELSE <<SectionStep(made, st.blacklist, <<>>, "index")>>)
          \o <<SectionStep(MapSet(made, propName, valMap), st.blacklist, <<>>, "index")>>
          \o (IF Cardinality(DOMAIN valMap) > MaxIndexValues
              THEN <<SectionStep(MapDelete(made, propName), st.blacklist, <<>>, "index"),
                     SectionStep(MapDelete(made, propName), st.blacklist \cup {propName}, <<>>, "blacklist"),
                     SectionStep(MapDelete(made, propName), st.blacklist \cup {propName}, <<propName>>,
                                 "none")>>
              ELSE <<>>)

\* The values lm.index takes inside one iteration of removeFromIndex's loop:
\* the list of the value written (line 676, also when the list holds no
\* entryId and the list written equals the one read) or deleted (line 674),
\* then the empty bucket deleted (line 680).
removeFromIndexWrites(idx, entryId, propName, propValue) ==
  IF ByteLen(propValue) > MaxIndexValueLength THEN <<>>
  ELSE IF propName \notin DOMAIN idx THEN <<>>
  ELSE LET propValueMap == idx[propName]
           newEntryIds == IF propValue \in DOMAIN propValueMap
                          THEN SelectSeq(propValueMap[propValue], LAMBDA id : id # entryId)
                          ELSE <<>>
           propValueMap2 == IF propValue \notin DOMAIN propValueMap THEN propValueMap
                            ELSE IF Len(newEntryIds) = 0 THEN MapDelete(propValueMap, propValue)
                            ELSE MapSet(propValueMap, propValue, newEntryIds)
       IN (IF propValue \in DOMAIN propValueMap
           THEN <<MapSet(idx, propName, propValueMap2)>> ELSE <<>>)
          \o (IF DOMAIN propValueMap2 = {} THEN <<MapDelete(idx, propName)>> ELSE <<>>)

\* the steps of one iteration of removeFromIndex's loop
removeFromIndexSteps(idx, bl, entryId, propName, propValue) ==
  [i \in 1..Len(removeFromIndexWrites(idx, entryId, propName, propValue)) |->
     SectionStep(removeFromIndexWrites(idx, entryId, propName, propValue)[i], bl, <<>>, "index")]

\* the results flattenMap(raw) can have
Flats(raw) == {flattenMap(raw, o) : o \in FlattenOrders(raw)}

(***************************************************************************)
(* AddLogEntry inside its section (lines 463 to 471), one write of         *)
(* lm.index or lm.blacklist at a time.  The goroutines that read the two   *)
(* maps without logStoreMu see each write.  The writes of logStore and     *)
(* logOrder are read under logStoreMu only: they are made with the step    *)
(* that releases it.  A section in progress is a record:                   *)
(*   stage   "add" (in addToIndex), "remove" (in removeFromIndex) or "end" *)
(*           (at Unlock, line 471);                                        *)
(*   flat    the map the range of the stage is over: flattenMap(raw), or   *)
(*           flatOld of enforceMaxLogs;                                    *)
(*   rest    the keys the range has still to produce, in any order;        *)
(*   steps   the steps the iteration in progress has still to make;        *)
(*   drops   the slices the callback has been called with.                 *)
(***************************************************************************)
NewSection(flat) ==
  [stage |-> "add", flat |-> flat, rest |-> DOMAIN flat, steps |-> <<>>, drops |-> <<>>]

\* the id enforceMaxLogs takes from the head of logOrder when id is stored
Evicted(id) == Append(logOrder, id)[1]

\* The section sec of AddLogEntry(raw) with id, between two iterations,
\* with lm.index as idx and lm.blacklist as bl: the range produces a key.
\* An iteration that writes nothing (line 639, 662 or 665) leaves no trace,
\* so the range goes on to one that writes; with none left addToIndex
\* returns and enforceMaxLogs flattens the entry it removes (EvictedRaw: an
\* empty object when it removes none), and then the section ends.
RECURSIVE SectionNext(_, _, _, _, _)
SectionNext(sec, id, raw, idx, bl) ==
  IF sec.stage = "add"
  THEN LET writing == {propName \in sec.rest :
                         addToIndexSteps([index |-> idx, blacklist |-> bl], id, propName,
                                         sec.flat[propName]) # <<>>}
       IN IF writing # {}
          THEN {[sec EXCEPT !.rest = @ \ {propName},
                            !.steps = addToIndexSteps([index |-> idx, blacklist |-> bl], id, propName,
                                                      sec.flat[propName])] :
                  propName \in writing}
          ELSE UNION {SectionNext([sec EXCEPT !.stage = "remove", !.flat = flatOld,
                                              !.rest = DOMAIN flatOld],
                                  id, raw, idx, bl) :
                        flatOld \in Flats(EvictedRaw(id, raw))}
  ELSE LET writing == {propName \in sec.rest :
                         removeFromIndexWrites(idx, Evicted(id), propName, sec.flat[propName]) # <<>>}
       IN IF writing # {}
          THEN {[sec EXCEPT !.rest = @ \ {propName},
                            !.steps = removeFromIndexSteps(idx, bl, Evicted(id), propName,
                                                           sec.flat[propName])] :
                  propName \in writing}
          ELSE {[sec EXCEPT !.stage = "end", !.flat = EmptyMap, !.rest = {}]}

\* AddLogEntry, lines 464, 468 and 470 on logOrder and logStore: the entry
\* is stored and enforceMaxLogs removes the oldest one
SectionStores(id, raw) ==
  enforceMaxLogs([logOrder |-> Append(logOrder, id),
                  logStore |-> MapSet(logStore, id, [id |-> id, Raw |-> raw]),
                  index |-> EmptyMap],
                 CHOOSE o \in FlattenOrders(EvictedRaw(id, raw)) : TRUE)

\* A loop over a map of maps (json.Marshal over an IndexCounts) that runs
\* while another goroutine writes the map.  states holds the counts the map
\* stands for after each of the writes.  From the bucket of propName the
\* loop can copy a value or miss it when some state of the bucket lacks it,
\* and the count it copies is the one of any of the states.
RacyBucket(states, propName) ==
  LET has == {s \in states : propName \in DOMAIN s}
      vals == UNION {DOMAIN s[propName] : s \in has}
      must == {v \in vals : \A s \in has : v \in DOMAIN s[propName]}
  IN UNION {Choices([v \in V |-> {s[propName][v] : s \in {x \in has : v \in DOMAIN x[propName]}}]) :
              V \in {W \in SUBSET vals : must \subseteq W}}

\* the loop over the buckets: each bucket is read on its own, one that some
\* state lacks may be missed
RacyCounts(states) ==
  LET names == UNION {DOMAIN s : s \in states}
      must == {n \in names : \A s \in states : n \in DOMAIN s}
  IN UNION {Choices([n \in P |-> RacyBucket(states, n)]) :
              P \in {Q \in SUBSET names : must \subseteq Q}}

(***************************************************************************)
(* GetIndexCounts, lines 715 to 724.  The caller holds no lock, so the     *)
(* writes of any number of AddLogEntry calls can fall between two          *)
(* iterations of its loops.  A call that is suspended at an iteration is   *)
(* a record:                                                               *)
(*   pc      "outer" (at line 717, between two properties), "inner" (at    *)
(*           line 719, inside the bucket of cur) or "done" (at line 723);  *)
(*   pseen   the properties the outer range has produced;                  *)
(*   pmust   the properties in lm.index since the range began: a range     *)
(*           produces each key that stays in the map, it produces a key    *)
(*           added during the range or not, and no key removed before it   *)
(*           is reached;                                                   *)
(*   vseen, vmust  the same for the values of the bucket of cur;           *)
(*   orphan  the bucket of cur was deleted from lm.index (line 648 or 680) *)
(*           after line 717 produced it: the inner range goes on over the  *)
(*           map it holds, whose content is bucket;                        *)
(*   counts  result, as far as it is filled.                               *)
(* The variable gic is the call in progress: who called (by, and stage for *)
(* a caller that calls twice), the set calls of the records the call can   *)
(* be at, given the writes made since it began, whether any write was made *)
(* since (quiet), and what the first of two calls returned (first).        *)
(***************************************************************************)
GicIdle ==
  [pc |-> "idle", by |-> "none", stage |-> 0, calls |-> {}, quiet |-> FALSE, first |-> EmptyMap]

\* line 716 and the start of the range of line 717 over the map, whose
\* counts are s
GicStart(s) ==
  [pc |-> "outer", pseen |-> {}, pmust |-> DOMAIN s, cur |-> "", vseen |-> {}, vmust |-> {},
   orphan |-> FALSE, bucket |-> EmptyMap, counts |-> EmptyMap]

\* line 717 with the call at g: the range produces a property it has not
\* produced (line 718 makes its bucket in result), or ends when none that
\* has to be produced is left
GicOuterMoves(g, s) ==
  {[g EXCEPT !.pc = "inner", !.pseen = @ \cup {propName}, !.cur = propName,
             !.vseen = {}, !.vmust = DOMAIN s[propName],
             !.counts = MapSet(@, propName, EmptyMap)] :
     propName \in DOMAIN s \ g.pseen}
  \cup (IF g.pmust \subseteq g.pseen THEN {[g EXCEPT !.pc = "done"]} ELSE {})

\* the bucket the inner range of g is over
GicBucket(g, s) == IF g.orphan THEN g.bucket ELSE s[g.cur]

\* lines 719 and 720: the inner range produces a value it has not produced
\* and its count is copied, or it ends and line 717 goes on
GicInnerMoves(g, s) ==
  {[g EXCEPT !.vseen = @ \cup {v},
             !.counts = MapSet(@, g.cur, MapSet(@[g.cur], v, GicBucket(g, s)[v]))] :
     v \in DOMAIN GicBucket(g, s) \ g.vseen}
  \cup (IF g.vmust \subseteq g.vseen
        THEN {[g EXCEPT !.pc = "outer", !.cur = "", !.vseen = {}, !.vmust = {},
                        !.orphan = FALSE, !.bucket = EmptyMap]}
        ELSE {})

\* the next iteration of a call at g
GicMoves(g, s) ==
  IF g.pc = "outer" THEN GicOuterMoves(g, s)
  ELSE IF g.pc = "inner" THEN GicInnerMoves(g, s)
  ELSE {}

\* every record a call at one of front (or of found) reaches by iterations
\* made while lm.index stands for the counts s
RECURSIVE GicReach(_, _, _)
GicReach(found, front, s) ==
  IF front = {} THEN found
  ELSE UNION {GicReach(all, next \ all, s) :
                all \in {found \cup front}, next \in {UNION {GicMoves(g, s) : g \in front}}}

\* A call suspended at g when a write takes lm.index from the counts s0 to
\* s1.  A property or value that is no longer in the map need not be
\* produced.  A bucket that the write deletes while the inner range is over
\* it keeps the values it had.
GicAfterWrite(g, s0, s1) ==
  IF g.pc = "done" THEN g
  ELSE IF g.pc = "inner" /\ ~g.orphan
  THEN IF g.cur \in DOMAIN s1
       THEN [g EXCEPT !.pmust = @ \cap DOMAIN s1, !.vmust = @ \cap DOMAIN s1[g.cur]]
       ELSE [g EXCEPT !.pmust = @ \cap DOMAIN s1, !.orphan = TRUE, !.bucket = s0[g.cur]]
  ELSE [g EXCEPT !.pmust = @ \cap DOMAIN s1]

\* the call in progress, if any, after a write that takes lm.index from
\* idx0 to idx1: it made any number of iterations before the write
GicAfterWrites(idx0, idx1) ==
  IF gic.pc = "idle" \/ idx0 = idx1 THEN gic
  ELSE [gic EXCEPT !.quiet = FALSE,
                   !.calls = UNION {{GicAfterWrite(g, s0, s1) : g \in GicReach({}, gic.calls, s0)} :
                                      s0 \in {GetIndexCounts(idx0)}, s1 \in {GetIndexCounts(idx1)}}]

\* a call begins
GicBegin(by, stage) ==
  [gic EXCEPT !.pc = "run", !.by = by, !.stage = stage, !.calls = {GicStart(GetIndexCounts(index))},
              !.quiet = IF stage = 2 THEN @ ELSE TRUE]

\* what the call in progress can return now
GicResults ==
  UNION {{g.counts : g \in {x \in GicReach({}, gic.calls, s) : x.pc = "done"}} :
           s \in {GetIndexCounts(index)}}

\* the range of GetIndexCounts is running at a statement of the section
\* that writes lm.index or one of its buckets, whether the statement changes
\* what the map holds or not: the runtime can end the process ("concurrent
\* map iteration and map write")
IndexWriteRaces(step) == gic.pc = "run" /\ step.writes = "index"

\* AddLogEntry, lines 463 to 471: under logStoreMu; r is what the calls did
StoreUnderLock(t, r) ==
  /\ logOrder' = r.logOrder
  /\ logStore' = r.logStore
  /\ index' = r.index
  /\ blacklist' = r.blacklist
  /\ ret' = [op |-> "store", id |-> local[t].id, drops |-> r.drops]
  /\ pc' = [pc EXCEPT ![t] = "buffer"]
  /\ UNCHANGED <<idCounter, logBuffer, local, appended, req>>

\* AddLogEntry, lines 463 to 471, as one step: every reader of the
\* specifications that use it takes logStoreMu.  The DropIndexKeysCallback
\* is the default one, which does nothing.
AddLogEntryStore(t) ==
  /\ Running
  /\ pc[t] = "store"
  /\ \E r \in StoreResults(local[t].id, local[t].raw) : StoreUnderLock(t, r)
  /\ UNCHANGED wsVars

\* AddLogEntry, lines 473 to 477: under logBufferMu, and the return
AddLogEntryBuffer(t) ==
  /\ Running
  /\ pc[t] = "buffer"
  /\ logBuffer' = Append(logBuffer, local[t].raw)
  /\ ret' = [op |-> "AddLogEntry", id |-> local[t].id]
  /\ pc' = [pc EXCEPT ![t] = "idle"]
  /\ local' = [local EXCEPT ![t] = NoLocal]
  /\ UNCHANGED <<idCounter, logOrder, logStore, index, blacklist, appended, req, wsVars>>

\* variant: the batch is returned and stays in the buffer
GetAndClearBufferedLogs_NoClear ==
  /\ Running
  /\ ret' = IF Len(logBuffer) = 0
            THEN [op |-> "GetAndClearBufferedLogs", HasLogs |-> FALSE, Logs |-> <<>>]
            ELSE [op |-> "GetAndClearBufferedLogs", HasLogs |-> TRUE, Logs |-> logBuffer]
  /\ UNCHANGED logBuffer
  /\ UNCHANGED <<idCounter, logOrder, logStore, index, blacklist, pc, local, appended, req, wsVars>>

GetAndClearBufferedLogs ==
  /\ Running
  /\ ret' = IF Len(logBuffer) = 0
            THEN [op |-> "GetAndClearBufferedLogs", HasLogs |-> FALSE, Logs |-> <<>>]
            ELSE [op |-> "GetAndClearBufferedLogs", HasLogs |-> TRUE, Logs |-> logBuffer]
  /\ logBuffer' = <<>>
  /\ UNCHANGED <<idCounter, logOrder, logStore, index, blacklist, pc, local, appended, req, wsVars>>

CallGetLastLogs ==
  /\ Running
  /\ StoreMuFree
  /\ ret' = [op |-> "GetLastLogs", Logs |-> GetLastLogs(logOrder, logStore, req.n)]
  /\ UNCHANGED <<idCounter, logOrder, logStore, logBuffer, index, blacklist, pc, local, appended, req, wsVars>>

\* the orders of the three flattenMap calls made for one entry: by
\* logMatchesFilter (f), by logMatchesSearch (s) and for the counts (c),
\* each chosen independently of the others
OrdersFor(raw) == [f : FlattenOrders(raw), s : FlattenOrders(raw), c : FlattenOrders(raw)]

\* one order of each call, for a statement about what an entry matches
CanonOrder(raw) == CHOOSE x \in FlattenOrders(raw) : TRUE

CanonicalOrders(raw) == [f |-> CanonOrder(raw), s |-> CanonOrder(raw), c |-> CanonOrder(raw)]

\* one choice of orders for every entry of logs, each entry's own
OrderSeqs(logs) == Choices([i \in 1..Len(logs) |-> OrdersFor(logs[i])])

\* one choice of orders for every position of logOrder
SearchOrders(m) ==
  OrderSeqs([i \in 1..Len(m.order) |->
               IF m.order[i] \in DOMAIN m.store THEN m.store[m.order[i]].Raw ELSE EmptyMap])

CallSearchLogs ==
  /\ Running
  /\ StoreMuFree
  /\ \E ords \in SearchOrders(Manager) :
       ret' = [op |-> "SearchLogs", result |-> SearchLogs(Manager, req.query, req.n, ords)]
  /\ UNCHANGED <<idCounter, logOrder, logStore, logBuffer, index, blacklist, pc, local, appended, req, wsVars>>

\* variant: the counts are handed out and the index is emptied
CallGetIndexCounts_Clear ==
  /\ Running
  /\ gic.by \in {"none", "caller"}
  /\ IF gic.pc = "idle"
     THEN /\ gic' = GicBegin("caller", 1)
          /\ UNCHANGED <<ret, index>>
     ELSE \E counts \in GicResults :
            /\ ret' = [op |-> "GetIndexCounts", counts |-> counts, quiet |-> gic.quiet]
            /\ gic' = GicIdle
            /\ index' = EmptyMap
  /\ UNCHANGED <<idCounter, logOrder, logStore, logBuffer, blacklist, pc, local, appended, req, coVars>>

\* GetIndexCounts called by a goroutine other than the one in AddLogEntry:
\* the call begins (line 716), or it makes the iterations it has left and
\* returns (line 723)
CallGetIndexCounts ==
  /\ Running
  /\ gic.by \in {"none", "caller"}
  /\ IF gic.pc = "idle"
     THEN /\ gic' = GicBegin("caller", 1)
          /\ UNCHANGED ret
     ELSE \E counts \in GicResults :
            /\ ret' = [op |-> "GetIndexCounts", counts |-> counts, quiet |-> gic.quiet]
            /\ gic' = GicIdle
  /\ UNCHANGED <<idCounter, logOrder, logStore, logBuffer, index, blacklist, pc, local, appended, req, coVars>>

CallGetLogsCount ==
  /\ Running
  /\ StoreMuFree
  /\ ret' = [op |-> "GetLogsCount", count |-> GetLogsCount(logStore)]
  /\ UNCHANGED <<idCounter, logOrder, logStore, logBuffer, index, blacklist, pc, local, appended, req, wsVars>>

Requests == [query : Queries, n : 0..MaxLogs]

NoRequest == [query |-> QueryEmpty, n |-> 0]

Conns == 1..MaxConns

Pages == 1..MaxPages

\* json.Marshal of a nil IndexCounts map
NilCounts == [isNil |-> TRUE, m |-> EmptyMap]
Counts(m) == [isNil |-> FALSE, m |-> m]

\* &Client{conn: conn}: the zero SearchPayload and a nil indexCounts
NewClient == [searchPayload |-> QueryEmpty, indexCounts |-> NilCounts]

NoMessage == [type |-> "none"]

NoResult == [Logs |-> <<>>, IndexCounts |-> EmptyMap]

\* what a goroutine holds between json.Marshal (line 860) and WriteMessage
\* (line 866) of wsSend: the encoded message; during holds the values the
\* map of a set_logs reply has taken since its encoding began
Encoded(msg) == [msg |-> msg, during |-> {}]

NoEncoded == Encoded(NoMessage)

\* sendBufferedLogs between two ticks
FlushIdle ==
  [pc |-> "sleep", Logs |-> <<>>, seen |-> {}, cur |-> 0, msg |-> NoMessage, k |-> 0, gen |-> 0,
   flat |-> EmptyMap, keys |-> {}]

\* wsBroadcastLoop outside its range over wsClients
NoRange == [seen |-> {}, cur |-> 0]

(***************************************************************************)
(* The goroutines at the grain of their locks.  A goroutine is a pair of   *)
(* its kind and, for a wsHandler, its connection.                          *)
(***************************************************************************)
NoThread == <<"none", 0>>
MainThread == <<"main", 0>>
FlushThread == <<"flush", 0>>
BroadcastThread == <<"bcast", 0>>
StatusThread == <<"status", 0>>
HandlerThread(c) == <<"h", c>>
Threads == {MainThread, FlushThread, BroadcastThread, StatusThread} \cup {HandlerThread(c) : c \in Conns}

\* every goroutine before its first step, every lock free
LkInit ==
  [at |-> [t \in Threads |-> CASE t = MainThread -> "idle"
                               [] t = FlushThread -> "sleep"
                               [] t = BroadcastThread -> "recv"
                               [] t = StatusThread -> "tick"
                               [] OTHER -> "off"],
   cur |-> [t \in Threads |-> 0],
   seen |-> [t \in Threads |-> {}],
   idCounterMu |-> NoThread,
   bufferMu |-> NoThread,
   storeW |-> NoThread,
   storeR |-> {},
   clientsMu |-> NoThread,
   writeMu |-> [c \in Conns |-> NoThread],
   grew |-> {}]

\* The variable logs of app.js: an array (isArray, its elements in items) or
\* the payload object of a set_logs message.  NoPayload fills the field that
\* is not in use.
NoPayload == [logs |-> <<>>, indexCounts |-> EmptyMap]

\* app.js, line 18: let logs = []
EmptyLogs == [isArray |-> TRUE, items |-> <<>>, payload |-> NoPayload]

\* app.js, lines 12 to 18, before line 341 has run: ws is undefined (0),
\* no reconnect timer, an empty list
NewPage == [loaded |-> FALSE, ws |-> 0, reconnectInterval |-> FALSE, failing |-> 0, logs |-> EmptyLogs]

\* a connection no page has made
NoSocket == [page |-> 0, state |-> "none", inflight |-> <<>>]

\* nothing written to a connection yet
NoneReceived == [snapshot |-> <<>>, added |-> <<>>]

InitCoordinator ==
  /\ wsClients = {}
  /\ client = [c \in Conns |-> NewClient]
  /\ conn = [c \in Conns |-> "none"]
  /\ hpc = [c \in Conns |-> "off"]
  /\ hreq = [c \in Conns |-> QueryEmpty]
  /\ hres = [c \in Conns |-> NoResult]
  /\ hout = [c \in Conns |-> NoEncoded]
  /\ inbox = [c \in Conns |-> <<>>]
  /\ csent = 0
  /\ sent = [c \in Conns |-> <<>>]
  /\ bpc = "loop"
  /\ bmsg = NoMessage
  /\ brange = NoRange
  /\ tick = NoMessage
  /\ flush = FlushIdle
  /\ nSetSearch = [c \in Conns |-> 0]
  /\ nSetLogs = [c \in Conns |-> 0]
  /\ received = [c \in Conns |-> NoneReceived]
  /\ page = [p \in Pages |-> NewPage]
  /\ socket = [c \in Conns |-> NoSocket]
  /\ lk = LkInit
  /\ gic = GicIdle

InitManager ==
  /\ idCounter = 0
  /\ logOrder = <<>>
  /\ logStore = EmptyMap
  /\ logBuffer = <<>>
  /\ index = EmptyMap
  /\ blacklist = {}
  /\ pc = [t \in Callers |-> "idle"]
  /\ local = [t \in Callers |-> NoLocal]
  /\ appended = <<>>
  /\ ret = [op |-> "none"]

(***************************************************************************)
(* Spec: the LogManager under main's read loop, the flush worker's drain   *)
(* and the argument-free readers.                                          *)
(***************************************************************************)
Init == InitManager /\ InitCoordinator /\ req = NoRequest

Next ==
  \/ \E t \in Callers, raw \in Raws : idCounter < MaxAppends /\ AddLogEntryId(t, raw)
  \/ \E t \in Callers : AddLogEntryStore(t)
  \/ \E t \in Callers : AddLogEntryBuffer(t)
  \/ GetAndClearBufferedLogs
  \/ CallGetLogsCount

Spec == Init /\ [][Next]_vars

(***************************************************************************)
(* SpecRead: the LogManager with a reader whose arguments are drawn at the *)
(* start.                                                                  *)
(***************************************************************************)
InitRead == InitManager /\ InitCoordinator /\ req \in Requests

NextRead ==
  \/ \E t \in Callers, raw \in Raws : idCounter < MaxReadAppends /\ AddLogEntryId(t, raw)
  \/ \E t \in Callers : AddLogEntryStore(t)
  \/ \E t \in Callers : AddLogEntryBuffer(t)
  \/ CallGetLastLogs
  \/ CallSearchLogs

SpecRead == InitRead /\ [][NextRead]_vars

(***************************************************************************)
(* Properties                                                              *)
(***************************************************************************)
OrderIds == {logOrder[i] : i \in 1..Len(logOrder)}

IndexedIds(p, v) == {index[p][v][j] : j \in 1..Len(index[p][v])}

AllIndexedIds == UNION {IndexedIds(p, v) : <<p, v>> \in {<<p, v>> \in UNION {{p} \X DOMAIN index[p] : p \in DOMAIN index} : TRUE}}

AllIdle == \A t \in Callers : pc[t] = "idle"

\* C1: after every completed AddLogEntry the order list and the id map hold
\* the same ids, the order list has no duplicates and at most maxLogs ids.
C1_SameIds ==
  /\ OrderIds = DOMAIN logStore
  /\ \A i, j \in 1..Len(logOrder) : i # j => logOrder[i] # logOrder[j]
  /\ Len(logOrder) <= MaxLogs

C1_Witness ==
  /\ ret.op = "AddLogEntry"
  /\ ret.id > MaxLogs
  /\ Len(logOrder) = MaxLogs

\* C2: after maxLogs + k sequential appends, k > 0, GetLastLogs(maxLogs)
\* returns the maxLogs most recently appended entries in append order and no
\* index bucket holds the id of one of the k oldest entries.
C2_EvictionOldestFirst ==
  (AllIdle /\ idCounter > MaxLogs) =>
     /\ GetLastLogs(logOrder, logStore, MaxLogs)
          = [i \in 1..MaxLogs |-> appended[idCounter - MaxLogs + i]]
     /\ \A id \in AllIndexedIds : id > idCounter - MaxLogs

\* C5: every id in an index set index[p][v] is the id of a retained entry
\* whose flat view has p = v; so a count never exceeds the number of retained
\* entries carrying that value, and GetLastLogs returns at most maxLogs.
Carries(raw, p, v) == \E ord \in FlattenOrders(raw) : MapGetStr(flattenMap(raw, ord), p) = v

C5_IndexOnlyRetained ==
  /\ \A p \in DOMAIN index : \A v \in DOMAIN index[p] :
       /\ \A id \in IndexedIds(p, v) :
            id \in DOMAIN logStore /\ Carries(logStore[id].Raw, p, v)
       /\ GetIndexCounts(index)[p][v]
            <= Cardinality({id \in DOMAIN logStore : Carries(logStore[id].Raw, p, v)})
  /\ \A n \in 0..(MaxLogs + 1) : Len(GetLastLogs(logOrder, logStore, n)) <= MaxLogs

\* the step of caller t that stores, indexes and evicts
IsStoreStep(t) == pc[t] \in {"store", "section"} /\ pc'[t] = "buffer"

\* value v of property p would be indexed: neither empty nor over-length
Indexable(v) == v # <<>> /\ ByteLen(v) <= MaxIndexValueLength

NewValue(raw, p, ord) ==
  LET flat == flattenMap(raw, ord)
  IN p \in DOMAIN flat /\ Indexable(flat[p]) /\ flat[p] \notin DOMAIN index[p]

C3_Step(t) ==
  /\ \A p \in DOMAIN index' :
       /\ Cardinality(DOMAIN index'[p]) >= 1
       /\ Cardinality(DOMAIN index'[p]) <= MaxIndexValues
  /\ \A p \in blacklist' \ blacklist :
       /\ IsStoreStep(t)
       /\ p \in DOMAIN index
       /\ Cardinality(DOMAIN index[p]) = MaxIndexValues
       /\ \E ord \in FlattenOrders(local[t].raw) : NewValue(local[t].raw, p, ord)
       /\ p \notin DOMAIN index'
  /\ \A p \in DOMAIN index :
       (/\ IsStoreStep(t)
        /\ Cardinality(DOMAIN index[p]) = MaxIndexValues
        /\ \A ord \in FlattenOrders(local[t].raw) : NewValue(local[t].raw, p, ord))
       => (p \in blacklist' /\ p \notin DOMAIN index')

\* C3: an indexed property never has more than maxIndexValues distinct
\* values; a property is blacklisted only by the insertion that brings the
\* (maxIndexValues+1)-th distinct value to a property that has exactly
\* maxIndexValues, and that insertion deletes the whole bucket.
C3_CardinalityLimit == [][\A t \in Callers : C3_Step(t)]_vars

C3_Witness ==
  /\ ret.op = "store"
  /\ ret.drops = <<<<"level">>>>
  /\ "level" \in blacklist
  /\ "level" \notin DOMAIN index

\* C4: a blacklisted property stays blacklisted, and from then on it has no
\* bucket in the index and no entry in GetIndexCounts.
C4_BlacklistOneWay ==
  [][/\ blacklist \subseteq blacklist'
     /\ \A p \in blacklist' : p \notin DOMAIN index' /\ p \notin DOMAIN GetIndexCounts(index')]_vars

\* a blacklisted property met again by a later append that also evicts
C4_Witness ==
  /\ "level" \in blacklist
  /\ pc["main"] = "buffer"
  /\ ret.op = "store" /\ ret.drops = <<>>
  /\ "level" \in DOMAIN local["main"].raw
  /\ Indexable(toString(local["main"].raw["level"]))
  /\ local["main"].id > MaxLogs

(***************************************************************************)
(* LogSearch (part_007): filter and free-text matching.  A SearchPayload   *)
(* of LogSearch is [SearchTerm, Filters, Regexp].                          *)
(***************************************************************************)
MaxTermLen == 3

(***************************************************************************)
(* Unicode properties of the characters of the model                       *)
(***************************************************************************)
\* the general category of the character with code point x
CategoryOf(x) ==
  CASE x \in {7, 9, 10, 11, 12, 13} -> "Cc"
    [] x \in {32, 160} -> "Zs"
    [] x = 8232 -> "Zl"
    [] x = 8233 -> "Zp"
    [] x \in 48..57 -> "Nd"
    [] x \in 65..90 \cup {201, 8490} -> "Lu"
    [] x \in 97..122 \cup {233, 383} -> "Ll"
    [] x = 36 -> "Sc"
    [] x \in {43, 60, 61, 62, 124, 126} -> "Sm"
    [] x \in {94, 96} -> "Sk"
    [] x = 45 -> "Pd"
    [] x = 95 -> "Pc"
    [] x \in {40, 91, 123} -> "Ps"
    [] x \in {41, 93, 125} -> "Pe"
    [] x \in 33..126 -> "Po"
    [] OTHER -> "Cn"

\* the script of the character with code point x
ScriptOf(x) ==
  IF x \in 65..90 \cup 97..122 \cup {201, 233, 383, 8490} THEN "Latin" ELSE "Common"

\* the keys of unicode.Categories and of unicode.Scripts
Categories ==
  {"C", "Cc", "Cf", "Co", "Cs", "L", "Ll", "Lm", "Lo", "Lt", "Lu", "M", "Mc",
   "Me", "Mn", "N", "Nd", "Nl", "No", "P", "Pc", "Pd", "Pe", "Pf", "Pi",
   "Po", "Ps", "S", "Sc", "Sk", "Sm", "So", "Z", "Zl", "Zp", "Zs"}

Scripts ==
  {"Adlam", "Ahom", "Anatolian_Hieroglyphs", "Arabic", "Armenian", "Avestan",
   "Balinese", "Bamum", "Bassa_Vah", "Batak", "Bengali", "Bhaiksuki",
   "Bopomofo", "Brahmi", "Braille", "Buginese", "Buhid",
   "Canadian_Aboriginal", "Carian", "Caucasian_Albanian", "Chakma", "Cham",
   "Cherokee", "Chorasmian", "Common", "Coptic", "Cuneiform", "Cypriot",
   "Cypro_Minoan", "Cyrillic", "Deseret", "Devanagari", "Dives_Akuru",
   "Dogra", "Duployan", "Egyptian_Hieroglyphs", "Elbasan", "Elymaic",
   "Ethiopic", "Georgian", "Glagolitic", "Gothic", "Grantha", "Greek",
   "Gujarati", "Gunjala_Gondi", "Gurmukhi", "Han", "Hangul",
   "Hanifi_Rohingya", "Hanunoo", "Hatran", "Hebrew", "Hiragana",
   "Imperial_Aramaic", "Inherited", "Inscriptional_Pahlavi",
   "Inscriptional_Parthian", "Javanese", "Kaithi", "Kannada", "Katakana",
   "Kawi", "Kayah_Li", "Kharoshthi", "Khitan_Small_Script", "Khmer",
   "Khojki", "Khudawadi", "Lao", "Latin", "Lepcha", "Limbu", "Linear_A",
   "Linear_B", "Lisu", "Lycian", "Lydian", "Mahajani", "Makasar",
   "Malayalam", "Mandaic", "Manichaean", "Marchen", "Masaram_Gondi",
   "Medefaidrin", "Meetei_Mayek", "Mende_Kikakui", "Meroitic_Cursive",
   "Meroitic_Hieroglyphs", "Miao", "Modi", "Mongolian", "Mro", "Multani",
   "Myanmar", "Nabataean", "Nag_Mundari", "Nandinagari", "New_Tai_Lue",
   "Newa", "Nko", "Nushu", "Nyiakeng_Puachue_Hmong", "Ogham", "Ol_Chiki",
   "Old_Hungarian", "Old_Italic", "Old_North_Arabian", "Old_Permic",
   "Old_Persian", "Old_Sogdian", "Old_South_Arabian", "Old_Turkic",
   "Old_Uyghur", "Oriya", "Osage", "Osmanya", "Pahawh_Hmong", "Palmyrene",
   "Pau_Cin_Hau", "Phags_Pa", "Phoenician", "Psalter_Pahlavi", "Rejang",
   "Runic", "Samaritan", "Saurashtra", "Sharada", "Shavian", "Siddham",
   "SignWriting", "Sinhala", "Sogdian", "Sora_Sompeng", "Soyombo",
   "Sundanese", "Syloti_Nagri", "Syriac", "Tagalog", "Tagbanwa", "Tai_Le",
   "Tai_Tham", "Tai_Viet", "Takri", "Tamil", "Tangsa", "Tangut", "Telugu",
   "Thaana", "Thai", "Tibetan", "Tifinagh", "Tirhuta", "Toto", "Ugaritic",
   "Vai", "Vithkuqi", "Wancho", "Warang_Citi", "Yezidi", "Yi",
   "Zanabazar_Square"}

\* the character with code point x is in the table unicodeTable(name) gives
UnicodeTableHas(name, x) ==
  \/ name = "Any"
  \/ name \in Categories /\ name \in {CategoryOf(x), SubSeq(CategoryOf(x), 1, 1)}
  \/ name \in Scripts /\ name = ScriptOf(x)

\* the character class of unicodeWhitespace: [\p{Zs}\p{Zl}\p{Zp}\t\n\f\r]
IsWhitespace(c) ==
  c \in {"\t", "\n", "\f", "\r"} \/ CategoryOf(Code(c)) \in {"Zs", "Zl", "Zp"}

\* unicodeWhitespace.Split(s, -1): the pieces between the maximal runs of
\* whitespace, empty pieces included; cur is the piece being read
RECURSIVE unicodeWhitespaceSplit(_, _, _, _)
unicodeWhitespaceSplit(s, i, cur, parts) ==
  IF i > Len(s) THEN Append(parts, cur)
  ELSE IF IsWhitespace(s[i])
       THEN IF i > 1 /\ IsWhitespace(s[i - 1])
            THEN unicodeWhitespaceSplit(s, i + 1, cur, parts)
            ELSE unicodeWhitespaceSplit(s, i + 1, <<>>, Append(parts, cur))
       ELSE unicodeWhitespaceSplit(s, i + 1, Append(cur, s[i]), parts)

splitOnWhitespace(s) ==
  SelectSeq(unicodeWhitespaceSplit(s, 1, <<>>, <<>>), LAMBDA part : part # <<>>)

\* the loop over the chunks, with its early return
RECURSIVE stringSearchChunks(_, _)
stringSearchChunks(chunks, flat) ==
  IF chunks = <<>> THEN TRUE
  ELSE LET found == \E k \in DOMAIN flat : Contains(ToLower(flat[k]), Head(chunks))
       IN IF ~found THEN FALSE
          ELSE stringSearchChunks(Tail(chunks), flat)

\* variant: one token found is enough
stringSearch_AnyToken(searchTerm, flat) ==
  \E t \in 1..Len(splitOnWhitespace(ToLower(searchTerm))) :
    \E k \in DOMAIN flat : Contains(ToLower(flat[k]), splitOnWhitespace(ToLower(searchTerm))[t])

stringSearch(searchTerm, flat) ==
  stringSearchChunks(splitOnWhitespace(ToLower(searchTerm)), flat)

(***************************************************************************)
(* Package regexp: regexp.Compile("(?i)" + term) and Regexp.MatchString,   *)
(* with the syntax regexp/syntax parses under the Perl flags (Go 1.22 and  *)
(* later).  A pattern is a sequence of characters; the parser gives        *)
(* [ok |-> FALSE] for a pattern that does not compile and the syntax tree  *)
(* otherwise.  The nodes of the tree:                                      *)
(*   [op |-> "lit", c, fold]        one character, c its code point        *)
(*   [op |-> "any", nl]             ".", nl: it matches a newline too      *)
(*   [op |-> "class", items, neg, fold]                                    *)
(*                                  a class; an item is [ranges, uni, neg] *)
(*   [op |-> "bot"], "eot", "bol", "eol", "wb", "nwb"                      *)
(*                                  the empty-width assertions             *)
(*   [op |-> "cat", subs], [op |-> "alt", subs]                            *)
(*   [op |-> "rep", sub, min, max, brace]                                  *)
(*                                  max = -1: no upper limit; brace: the   *)
(*                                  operator was written {n,m}             *)
(***************************************************************************)
Fail == [ok |-> FALSE]

\* F of the value x, with x computed once
With(x, F(_)) == F(x)

\* the character at position p of t, "" past the end
At(t, p) == IF p >= 1 /\ p <= Len(t) THEN t[p] ELSE ""

NoFlags == [i |-> FALSE, m |-> FALSE, s |-> FALSE, U |-> FALSE]

IsDigitChar(c) == c # "" /\ Code(c) >= 48 /\ Code(c) <= 57

IsOctalChar(c) == c # "" /\ Code(c) >= 48 /\ Code(c) <= 55

\* unhex(c), -1 for a character that is no hexadecimal digit
Unhex(c) ==
  IF c = "" THEN 0 - 1
  ELSE LET x == Code(c)
       IN IF x >= 48 /\ x <= 57 THEN x - 48
          ELSE IF x >= 97 /\ x <= 102 THEN x - 97 + 10
          ELSE IF x >= 65 /\ x <= 70 THEN x - 65 + 10
          ELSE 0 - 1

IsAlnumCode(x) == (x >= 48 /\ x <= 57) \/ (x >= 65 /\ x <= 90) \/ (x >= 97 /\ x <= 122)

\* the characters of s joined into one name
RECURSIVE JoinChars(_)
JoinChars(s) == IF s = <<>> THEN "" ELSE Head(s) \o JoinChars(Tail(s))

\* the least position q >= p with t[q] = a and t[q + 1] = b, 0 if none
RECURSIVE IndexPair(_, _, _, _)
IndexPair(t, p, a, b) ==
  IF p >= Len(t) THEN 0
  ELSE IF t[p] = a /\ t[p + 1] = b THEN p
  ELSE IndexPair(t, p + 1, a, b)

\* the least position q >= p with t[q] = a, 0 if none
RECURSIVE IndexChar(_, _, _)
IndexChar(t, p, a) ==
  IF p > Len(t) THEN 0
  ELSE IF t[p] = a THEN p
  ELSE IndexChar(t, p + 1, a)

\* parser.parseInt at position p: [ok, n, pos]; n = -1 for a number that is
\* too big
RECURSIVE ParseDigits(_, _, _)
ParseDigits(t, p, n) ==
  IF ~IsDigitChar(At(t, p)) THEN [n |-> n, pos |-> p]
  ELSE ParseDigits(t, p + 1,
                   IF n < 0 \/ n >= 100000000 THEN 0 - 1 ELSE n * 10 + Code(t[p]) - 48)

ParseInt(t, p) ==
  IF ~IsDigitChar(At(t, p)) THEN Fail
  ELSE IF t[p] = "0" /\ IsDigitChar(At(t, p + 1)) THEN Fail
  ELSE LET d == ParseDigits(t, p, 0) IN [ok |-> TRUE, n |-> d.n, pos |-> d.pos]

\* parser.parseRepeat at position p, t[p] = "{": [ok, min, max, pos]
ParseRepeat(t, p) ==
  With(ParseInt(t, p + 1), LAMBDA lo :
    IF ~lo.ok THEN Fail
    ELSE IF At(t, lo.pos) = "" THEN Fail
    ELSE IF t[lo.pos] # ","
         THEN IF t[lo.pos] = "}"
              THEN [ok |-> TRUE, min |-> lo.n, max |-> lo.n, pos |-> lo.pos + 1]
              ELSE Fail
    ELSE IF At(t, lo.pos + 1) = "" THEN Fail
    ELSE IF t[lo.pos + 1] = "}"
         THEN [ok |-> TRUE, min |-> lo.n, max |-> 0 - 1, pos |-> lo.pos + 2]
    ELSE With(ParseInt(t, lo.pos + 1), LAMBDA hi :
           IF ~hi.ok THEN Fail
           ELSE IF At(t, hi.pos) # "}" THEN Fail
           ELSE [ok |-> TRUE, min |-> IF hi.n < 0 THEN 0 - 1 ELSE lo.n, max |-> hi.n,
                 pos |-> hi.pos + 1]))

\* the octal escape whose first digit is at position p: at most three digits
ParseOctal(t, p) ==
  LET d1 == Code(t[p]) - 48
  IN IF ~IsOctalChar(At(t, p + 1)) THEN [ok |-> TRUE, c |-> d1, pos |-> p + 1]
     ELSE LET d2 == d1 * 8 + Code(t[p + 1]) - 48
          IN IF ~IsOctalChar(At(t, p + 2)) THEN [ok |-> TRUE, c |-> d2, pos |-> p + 2]
             ELSE [ok |-> TRUE, c |-> d2 * 8 + Code(t[p + 2]) - 48, pos |-> p + 3]

\* the digits of \x{...} from position p on: [ok, c, pos]
RECURSIVE ParseHexBraces(_, _, _, _)
ParseHexBraces(t, p, r, nhex) ==
  IF p > Len(t) THEN Fail
  ELSE IF t[p] = "}" THEN IF nhex = 0 THEN Fail ELSE [ok |-> TRUE, c |-> r, pos |-> p + 1]
  ELSE IF Unhex(t[p]) < 0 THEN Fail
  ELSE IF r * 16 + Unhex(t[p]) > 1114111 THEN Fail
  ELSE ParseHexBraces(t, p + 1, r * 16 + Unhex(t[p]), nhex + 1)

\* parser.parseEscape at position p, t[p] = "\\": [ok, c, pos], c the code
\* point the escape stands for
ParseEscape(t, p) ==
  LET c == At(t, p + 1)
  IN CASE c = "" -> Fail
       [] c \in {"1", "2", "3", "4", "5", "6", "7"} ->
            IF IsOctalChar(At(t, p + 2)) THEN ParseOctal(t, p + 1) ELSE Fail
       [] c = "0" -> ParseOctal(t, p + 1)
       [] c = "x" ->
            IF At(t, p + 2) = "" THEN Fail
            ELSE IF t[p + 2] = "{" THEN ParseHexBraces(t, p + 3, 0, 0)
            ELSE IF Unhex(t[p + 2]) < 0 \/ Unhex(At(t, p + 3)) < 0 THEN Fail
            ELSE [ok |-> TRUE, c |-> Unhex(t[p + 2]) * 16 + Unhex(t[p + 3]), pos |-> p + 4]
       [] c = "a" -> [ok |-> TRUE, c |-> 7, pos |-> p + 2]
       [] c = "f" -> [ok |-> TRUE, c |-> 12, pos |-> p + 2]
       [] c = "n" -> [ok |-> TRUE, c |-> 10, pos |-> p + 2]
       [] c = "r" -> [ok |-> TRUE, c |-> 13, pos |-> p + 2]
       [] c = "t" -> [ok |-> TRUE, c |-> 9, pos |-> p + 2]
       [] c = "v" -> [ok |-> TRUE, c |-> 11, pos |-> p + 2]
       [] OTHER -> IF Code(c) < 128 /\ ~IsAlnumCode(Code(c))
                   THEN [ok |-> TRUE, c |-> Code(c), pos |-> p + 2]
                   ELSE Fail

\* the item of a class that holds the code points lo to hi
RangeItem(lo, hi) == [ranges |-> <<<<lo, hi>>>>, uni |-> "", neg |-> FALSE]

\* the Perl classes \d \s \w and their negations \D \S \W
PerlLetters == {"d", "s", "w", "D", "S", "W"}

PerlItem(c) ==
  [ranges |-> CASE c \in {"d", "D"} -> <<<<48, 57>>>>
                [] c \in {"s", "S"} -> <<<<9, 10>>, <<12, 13>>, <<32, 32>>>>
                [] OTHER -> <<<<48, 57>>, <<65, 90>>, <<95, 95>>, <<97, 122>>>>,
   uni |-> "",
   neg |-> c \in {"D", "S", "W"}]

\* the POSIX classes [:name:]
PosixRanges ==
  ("alnum" :> <<<<48, 57>>, <<65, 90>>, <<97, 122>>>>)
    @@ ("alpha" :> <<<<65, 90>>, <<97, 122>>>>)
    @@ ("ascii" :> <<<<0, 127>>>>)
    @@ ("blank" :> <<<<9, 9>>, <<32, 32>>>>)
    @@ ("cntrl" :> <<<<0, 31>>, <<127, 127>>>>)
    @@ ("digit" :> <<<<48, 57>>>>)
    @@ ("graph" :> <<<<33, 126>>>>)
    @@ ("lower" :> <<<<97, 122>>>>)
    @@ ("print" :> <<<<32, 126>>>>)
    @@ ("punct" :> <<<<33, 47>>, <<58, 64>>, <<91, 96>>, <<123, 126>>>>)
    @@ ("space" :> <<<<9, 13>>, <<32, 32>>>>)
    @@ ("upper" :> <<<<65, 90>>>>)
    @@ ("word" :> <<<<48, 57>>, <<65, 90>>, <<95, 95>>, <<97, 122>>>>)
    @@ ("xdigit" :> <<<<48, 57>>, <<65, 70>>, <<97, 102>>>>)

\* parser.parseNamedClass at position p, t[p] = "[" and t[p + 1] = ":", with
\* the closing ":]" at position q: [ok, item, pos]
ParsePosixClass(t, p, q) ==
  LET neg == At(t, p + 2) = "^"
      name == JoinChars(SubSeq(t, IF neg THEN p + 3 ELSE p + 2, q - 1))
  IN IF name \in DOMAIN PosixRanges
     THEN [ok |-> TRUE, item |-> [ranges |-> PosixRanges[name], uni |-> "", neg |-> neg], pos |-> q + 2]
     ELSE Fail

\* parser.parseUnicodeClass at position p, t[p] = "\\" and t[p + 1] "p" or
\* "P": [ok, item, pos]
ParseUnicodeClass(t, p) ==
  LET c == At(t, p + 2)
      end == IndexChar(t, p, "}")
      name0 == IF c = "{" THEN SubSeq(t, p + 3, end - 1) ELSE <<c>>
      caret == name0 # <<>> /\ name0[1] = "^"
      name == JoinChars(IF caret THEN Tail(name0) ELSE name0)
  IN IF c = "" THEN Fail
     ELSE IF c = "{" /\ end = 0 THEN Fail
     ELSE IF name \notin Categories \cup Scripts \cup {"Any"} THEN Fail
     ELSE [ok |-> TRUE,
           item |-> [ranges |-> <<>>, uni |-> name, neg |-> (t[p + 1] = "P") # caret],
           pos |-> IF c = "{" THEN end + 1 ELSE p + 3]

\* parser.parseClassChar at position p: [ok, c, pos]
ParseClassChar(t, p) ==
  IF p > Len(t) THEN Fail
  ELSE IF t[p] = "\\" THEN ParseEscape(t, p)
  ELSE [ok |-> TRUE, c |-> Code(t[p]), pos |-> p + 1]

\* the loop of parser.parseClass from position p on: [ok, items, pos]
RECURSIVE ParseClassItems(_, _, _, _)
ParseClassItems(t, p, items, first) ==
  IF p > Len(t) THEN Fail
  ELSE IF t[p] = "]" /\ ~first THEN [ok |-> TRUE, items |-> items, pos |-> p + 1]
  ELSE IF t[p] = "[" /\ At(t, p + 1) = ":" /\ p + 2 <= Len(t) /\ IndexPair(t, p + 2, ":", "]") # 0
       THEN With(ParsePosixClass(t, p, IndexPair(t, p + 2, ":", "]")), LAMBDA r :
              IF r.ok THEN ParseClassItems(t, r.pos, Append(items, r.item), FALSE) ELSE Fail)
  ELSE IF t[p] = "\\" /\ At(t, p + 1) \in {"p", "P"}
       THEN With(ParseUnicodeClass(t, p), LAMBDA r :
              IF r.ok THEN ParseClassItems(t, r.pos, Append(items, r.item), FALSE) ELSE Fail)
  ELSE IF t[p] = "\\" /\ At(t, p + 1) \in PerlLetters
       THEN ParseClassItems(t, p + 2, Append(items, PerlItem(t[p + 1])), FALSE)
  ELSE With(ParseClassChar(t, p), LAMBDA lo :
         IF ~lo.ok THEN Fail
         ELSE IF At(t, lo.pos) = "-" /\ lo.pos + 1 <= Len(t) /\ t[lo.pos + 1] # "]"
              THEN With(ParseClassChar(t, lo.pos + 1), LAMBDA hi :
                     IF ~hi.ok THEN Fail
                     ELSE IF hi.c < lo.c THEN Fail
                     ELSE ParseClassItems(t, hi.pos, Append(items, RangeItem(lo.c, hi.c)), FALSE))
              ELSE ParseClassItems(t, lo.pos, Append(items, RangeItem(lo.c, lo.c)), FALSE))

\* parser.parseClass at position p, t[p] = "[": [ok, node, pos]
ParseClass(t, p, fl) ==
  LET neg == At(t, p + 1) = "^"
  IN With(ParseClassItems(t, IF neg THEN p + 2 ELSE p + 1, <<>>, TRUE), LAMBDA r :
       IF ~r.ok THEN Fail
       ELSE [ok |-> TRUE,
             node |-> [op |-> "class", items |-> r.items, neg |-> neg, fold |-> fl.i],
             pos |-> r.pos])

\* the flags after the letter c, set or (after a "-") cleared
SetFlag(fl, c, on) ==
  CASE c = "i" -> [fl EXCEPT !.i = on]
    [] c = "m" -> [fl EXCEPT !.m = on]
    [] c = "s" -> [fl EXCEPT !.s = on]
    [] OTHER -> [fl EXCEPT !.U = on]

\* the loop of parser.parsePerlFlags over the flag letters from position p
\* on: [ok, fl, pos, group], group: a ":" opened a group
RECURSIVE ParseFlagLetters(_, _, _, _, _)
ParseFlagLetters(t, p, fl, minus, sawFlag) ==
  LET c == At(t, p)
  IN CASE c \in {"i", "m", "s", "U"} -> ParseFlagLetters(t, p + 1, SetFlag(fl, c, ~minus), minus, TRUE)
       [] c = "-" -> IF minus THEN Fail ELSE ParseFlagLetters(t, p + 1, fl, TRUE, FALSE)
       [] c \in {":", ")"} ->
            IF minus /\ ~sawFlag THEN Fail
            ELSE [ok |-> TRUE, fl |-> fl, pos |-> p + 1, group |-> c = ":"]
       [] OTHER -> Fail

\* isValidCaptureName
IsCaptureName(name) ==
  /\ name # <<>>
  /\ \A i \in 1..Len(name) : name[i] = "_" \/ IsAlnumCode(Code(name[i]))

LitNode(c, fl) == [op |-> "lit", c |-> c, fold |-> fl.i]

\* the literals of the characters t[p] to t[q]
LitNodes(t, p, q, fl) == [j \in 1..(q - p + 1) |-> LitNode(Code(t[p + j - 1]), fl)]

\* repeatIsValid(re, n)
RECURSIVE RepeatIsValid(_, _)
RepeatIsValid(re, n) ==
  LET m == IF re.op = "rep" /\ re.brace THEN (IF re.max < 0 THEN re.min ELSE re.max) ELSE 0
      n2 == IF m > 0 THEN n \div m ELSE n
  IN IF re.op = "rep" /\ re.brace /\ re.max = 0 THEN TRUE
     ELSE IF m > n THEN FALSE
     ELSE CASE re.op = "rep" -> RepeatIsValid(re.sub, n2)
            [] re.op \in {"cat", "alt"} -> \A k \in 1..Len(re.subs) : RepeatIsValid(re.subs[k], n2)
            [] OTHER -> TRUE

CatNode(items) == IF Len(items) = 1 THEN items[1] ELSE [op |-> "cat", subs |-> items]

AltNode(branches) == IF Len(branches) = 1 THEN branches[1] ELSE [op |-> "alt", subs |-> branches]

\* items with its last item under the repetition min to max
Repeated(items, min, max, brace) ==
  [items EXCEPT ![Len(items)] =
     [op |-> "rep", sub |-> items[Len(items)], min |-> min, max |-> max, brace |-> brace]]

RECURSIVE ParseAlternation(_, _, _, _)
RECURSIVE ParseConcat(_, _, _, _, _)
\* the loop of syntax.Parse over one branch, from position p on, up to the
\* "|" or ")" that ends it or to the end of t: [ok, items, fl, pos].  items
\* are the operands read so far, lastRep says that the operator just read
\* was a repetition
ParseConcat(t, p, fl, items, lastRep) ==
  LET c == At(t, p)
      lazy == IF At(t, p + 1) = "?" THEN 1 ELSE 0
  IN CASE c \in {"", "|", ")"} -> [ok |-> TRUE, items |-> items, fl |-> fl, pos |-> p]
       [] c = "(" /\ At(t, p + 1) = "?" ->
            IF (Len(t) - p + 1 > 4 /\ t[p + 2] = "P" /\ t[p + 3] = "<") \/ (Len(t) - p + 1 > 3 /\ t[p + 2] = "<")
            THEN LET start == IF t[p + 2] = "<" THEN p + 3 ELSE p + 4
                 IN With(IndexChar(t, p, ">"), LAMBDA end :
                      IF end = 0 THEN Fail
                      ELSE IF ~IsCaptureName(SubSeq(t, start, end - 1)) THEN Fail
                      ELSE With(ParseAlternation(t, end + 1, fl, <<>>), LAMBDA in :
                             IF in.ok /\ At(t, in.pos) = ")"
                             THEN ParseConcat(t, in.pos + 1, fl, Append(items, in.node), FALSE)
                             ELSE Fail))
            ELSE With(ParseFlagLetters(t, p + 2, fl, FALSE, FALSE), LAMBDA f :
                   IF ~f.ok THEN Fail
                   ELSE IF ~f.group THEN ParseConcat(t, f.pos, f.fl, items, FALSE)
                   ELSE With(ParseAlternation(t, f.pos, f.fl, <<>>), LAMBDA in :
                          IF in.ok /\ At(t, in.pos) = ")"
                          THEN ParseConcat(t, in.pos + 1, fl, Append(items, in.node), FALSE)
                          ELSE Fail))
       [] c = "(" ->
            With(ParseAlternation(t, p + 1, fl, <<>>), LAMBDA in :
              IF in.ok /\ At(t, in.pos) = ")"
              THEN ParseConcat(t, in.pos + 1, fl, Append(items, in.node), FALSE)
              ELSE Fail)
       [] c \in {"*", "+", "?"} ->
            IF lastRep \/ items = <<>> THEN Fail
            ELSE ParseConcat(t, p + 1 + lazy, fl,
                             Repeated(items, IF c = "+" THEN 1 ELSE 0, IF c = "?" THEN 1 ELSE 0 - 1, FALSE),
                             TRUE)
       [] c = "{" ->
            With(ParseRepeat(t, p), LAMBDA r :
              IF ~r.ok THEN ParseConcat(t, p + 1, fl, Append(items, LitNode(Code(c), fl)), FALSE)
              ELSE IF r.min < 0 \/ r.min > 1000 \/ r.max > 1000 \/ (r.max >= 0 /\ r.min > r.max) THEN Fail
              ELSE IF lastRep \/ items = <<>> THEN Fail
              ELSE IF (r.min >= 2 \/ r.max >= 2)
                      /\ ~RepeatIsValid(Repeated(items, r.min, r.max, TRUE)[Len(items)], 1000)
                   THEN Fail
              ELSE ParseConcat(t, r.pos + (IF At(t, r.pos) = "?" THEN 1 ELSE 0), fl,
                               Repeated(items, r.min, r.max, TRUE), TRUE))
       [] c = "[" ->
            With(ParseClass(t, p, fl), LAMBDA r :
              IF r.ok THEN ParseConcat(t, r.pos, fl, Append(items, r.node), FALSE) ELSE Fail)
       [] c = "." -> ParseConcat(t, p + 1, fl, Append(items, [op |-> "any", nl |-> fl.s]), FALSE)
       [] c = "^" ->
            ParseConcat(t, p + 1, fl, Append(items, [op |-> IF fl.m THEN "bol" ELSE "bot"]), FALSE)
       [] c = "$" ->
            ParseConcat(t, p + 1, fl, Append(items, [op |-> IF fl.m THEN "eol" ELSE "eot"]), FALSE)
       [] c = "\\" ->
            LET d == At(t, p + 1)
            IN CASE d = "A" -> ParseConcat(t, p + 2, fl, Append(items, [op |-> "bot"]), FALSE)
                 [] d = "b" -> ParseConcat(t, p + 2, fl, Append(items, [op |-> "wb"]), FALSE)
                 [] d = "B" -> ParseConcat(t, p + 2, fl, Append(items, [op |-> "nwb"]), FALSE)
                 [] d = "z" -> ParseConcat(t, p + 2, fl, Append(items, [op |-> "eot"]), FALSE)
                 [] d = "C" -> Fail
                 [] d = "Q" ->
                      With(IndexPair(t, p + 2, "\\", "E"), LAMBDA qEnd :
                        IF qEnd = 0
                        THEN ParseConcat(t, Len(t) + 1, fl, items \o LitNodes(t, p + 2, Len(t), fl), FALSE)
                        ELSE ParseConcat(t, qEnd + 2, fl, items \o LitNodes(t, p + 2, qEnd - 1, fl), FALSE))
                 [] d \in {"p", "P"} ->
                      With(ParseUnicodeClass(t, p), LAMBDA r :
                        IF r.ok
                        THEN ParseConcat(t, r.pos, fl,
                                         Append(items, [op |-> "class", items |-> <<r.item>>,
                                                        neg |-> FALSE, fold |-> fl.i]),
                                         FALSE)
                        ELSE Fail)
                 [] d \in PerlLetters ->
                      ParseConcat(t, p + 2, fl,
                                  Append(items, [op |-> "class", items |-> <<PerlItem(d)>>,
                                                 neg |-> FALSE, fold |-> fl.i]),
                                  FALSE)
                 [] OTHER ->
                      With(ParseEscape(t, p), LAMBDA r :
                        IF r.ok THEN ParseConcat(t, r.pos, fl, Append(items, LitNode(r.c, fl)), FALSE)
                        ELSE Fail)
       [] OTHER -> ParseConcat(t, p + 1, fl, Append(items, LitNode(Code(c), fl)), FALSE)

\* the branches of an alternation from position p on, up to the ")" that
\* closes the group or to the end of t: [ok, node, fl, pos]
ParseAlternation(t, p, fl, branches) ==
  With(ParseConcat(t, p, fl, <<>>, FALSE), LAMBDA r :
    IF ~r.ok THEN Fail
    ELSE IF At(t, r.pos) = "|"
         THEN ParseAlternation(t, r.pos + 1, r.fl, Append(branches, CatNode(r.items)))
         ELSE [ok |-> TRUE, node |-> AltNode(Append(branches, CatNode(r.items))), fl |-> r.fl, pos |-> r.pos])

\* syntax.Parse(t, syntax.Perl): a ")" that closes nothing is an error
ParseRegexp(t) ==
  With(ParseAlternation(t, 1, NoFlags, <<>>), LAMBDA r :
    IF r.ok /\ r.pos > Len(t) THEN r ELSE Fail)

\* the code points that unicode.SimpleFold links with x, x among them
FoldOrbit(x) ==
  CASE x \in {75, 107, 8490} -> {75, 107, 8490}
    [] x \in {83, 115, 383} -> {83, 115, 383}
    [] x \in {201, 233} -> {201, 233}
    [] x >= 65 /\ x <= 90 -> {x, x + 32}
    [] x >= 97 /\ x <= 122 -> {x, x - 32}
    [] OTHER -> {x}

ItemHas(item, y) ==
  \/ \E k \in 1..Len(item.ranges) : item.ranges[k][1] <= y /\ y <= item.ranges[k][2]
  \/ item.uni # "" /\ UnicodeTableHas(item.uni, y)

\* a class under (?i) holds what folds to one of its members; an item or a
\* class written as a negation is negated after the folding
ClassHas(n, x) ==
  (\E k \in 1..Len(n.items) :
     (IF n.fold THEN \E y \in FoldOrbit(x) : ItemHas(n.items[k], y) ELSE ItemHas(n.items[k], x))
       # n.items[k].neg)
    # n.neg

IsWordChar(c) == c # "" /\ (Code(c) = 95 \/ IsAlnumCode(Code(c)))

RECURSIVE Ends(_, _, _)
RECURSIVE EndsCat(_, _, _, _)
RECURSIVE EndsRep(_, _, _, _, _)
RECURSIVE EndsStar(_, _, _, _)
\* the positions at which a match of node n that starts after the first i
\* characters of s can end
Ends(n, s, i) ==
  CASE n.op = "lit" ->
         IF i < Len(s) /\ (IF n.fold THEN n.c \in FoldOrbit(Code(s[i + 1])) ELSE n.c = Code(s[i + 1]))
         THEN {i + 1} ELSE {}
    [] n.op = "any" -> IF i < Len(s) /\ (n.nl \/ s[i + 1] # "\n") THEN {i + 1} ELSE {}
    [] n.op = "class" -> IF i < Len(s) /\ ClassHas(n, Code(s[i + 1])) THEN {i + 1} ELSE {}
    [] n.op = "bot" -> IF i = 0 THEN {i} ELSE {}
    [] n.op = "eot" -> IF i = Len(s) THEN {i} ELSE {}
    [] n.op = "bol" -> IF i = 0 \/ s[i] = "\n" THEN {i} ELSE {}
    [] n.op = "eol" -> IF i = Len(s) \/ s[i + 1] = "\n" THEN {i} ELSE {}
    [] n.op = "wb" -> IF IsWordChar(At(s, i)) # IsWordChar(At(s, i + 1)) THEN {i} ELSE {}
    [] n.op = "nwb" -> IF IsWordChar(At(s, i)) = IsWordChar(At(s, i + 1)) THEN {i} ELSE {}
    [] n.op = "cat" -> EndsCat(n.subs, 1, s, {i})
    [] n.op = "alt" -> UNION {Ends(n.subs[k], s, i) : k \in 1..Len(n.subs)}
    [] OTHER -> EndsRep(n.sub, n.min, n.max, s, {i})

EndsCat(subs, k, s, from) ==
  IF k > Len(subs) \/ from = {} THEN from
  ELSE EndsCat(subs, k + 1, s, UNION {Ends(subs[k], s, i) : i \in from})

EndsRep(sub, min, max, s, from) ==
  IF from = {} THEN {}
  ELSE IF min > 0
       THEN EndsRep(sub, min - 1, IF max < 0 THEN max ELSE max - 1, s,
                    UNION {Ends(sub, s, i) : i \in from})
  ELSE IF max < 0 THEN EndsStar(sub, s, from, from)
  ELSE IF max = 0 THEN from
  ELSE from \cup EndsRep(sub, 0, max - 1, s, UNION {Ends(sub, s, i) : i \in from})

\* all: the positions reached so far, new: the ones not yet continued
EndsStar(sub, s, all, new) ==
  LET next == UNION {Ends(sub, s, i) : i \in new} \ all
  IN IF next = {} THEN all ELSE EndsStar(sub, s, all \cup next, next)

\* the pattern regexp.Compile is given for the search term
Pattern(term) == <<"(", "?", "i", ")">> \o term

\* regexp.Compile("(?i)" + term) returns no error
regexpCompiles(term) == ParseRegexp(Pattern(term)).ok

\* re.MatchString(value) for re compiled from a term that compiles: a match
\* may start anywhere in value
regexpMatchString(term, value) ==
  LET re == ParseRegexp(Pattern(term)).node
  IN \E i \in 0..Len(value) : Ends(re, value, i) # {}

\* variant: a term that does not compile is matched whole, not split
logMatchesSearch_Unsplit(raw, searchTerm, useRegexp, ord) ==
  IF searchTerm = <<>> THEN TRUE
  ELSE LET flat == flattenMap(raw, ord)
       IN IF useRegexp
          THEN IF ~regexpCompiles(searchTerm)
               THEN \E k \in DOMAIN flat : Contains(ToLower(flat[k]), ToLower(searchTerm))
               ELSE \E k \in DOMAIN flat : regexpMatchString(searchTerm, flat[k])
          ELSE stringSearch(searchTerm, flat)

logMatchesSearch(raw, searchTerm, useRegexp, ord) ==
  IF searchTerm = <<>> THEN TRUE
  ELSE LET flat == flattenMap(raw, ord)
       IN IF useRegexp
          THEN IF ~regexpCompiles(searchTerm) THEN stringSearch(searchTerm, flat)
               ELSE \E k \in DOMAIN flat : regexpMatchString(searchTerm, flat[k])
          ELSE stringSearch(searchTerm, flat)

\* variant: a filtered property the entry does not have is passed over
RECURSIVE logMatchesFilterRange_SkipAbsent(_, _, _)
logMatchesFilterRange_SkipAbsent(flat, filter, keys) ==
  IF keys = <<>> THEN TRUE
  ELSE LET propValue == MapGetStr(flat, Head(keys))
           match == Head(keys) \notin DOMAIN flat \/ SlicesContains(filter[Head(keys)], propValue)
       IN IF ~match THEN FALSE
          ELSE logMatchesFilterRange_SkipAbsent(flat, filter, Tail(keys))

RECURSIVE logMatchesFilterRange(_, _, _)
logMatchesFilterRange(flat, filter, keys) ==
  IF keys = <<>> THEN TRUE
  ELSE LET propValue == MapGetStr(flat, Head(keys))
           match == SlicesContains(filter[Head(keys)], propValue)
       IN IF ~match THEN FALSE
          ELSE logMatchesFilterRange(flat, filter, Tail(keys))

\* variant: one filtered property matching is enough
logMatchesFilter_AnyProperty(raw, filter, ord) ==
  \/ filter.isNil
  \/ DOMAIN filter.m = {}
  \/ \E p \in DOMAIN filter.m : SlicesContains(filter.m[p], MapGetStr(flattenMap(raw, ord), p))

logMatchesFilter(raw, filter, ord) ==
  IF filter.isNil THEN TRUE
  ELSE logMatchesFilterRange(flattenMap(raw, ord), filter.m, RangeKeys(filter.m))

\* variant: the filter or the search is enough
logMatches_Or(raw, payload, ords) ==
  \/ logMatchesFilter(raw, payload.Filters, ords.f)
  \/ logMatchesSearch(raw, payload.SearchTerm, payload.Regexp, ords.s)

\* ords.f and ords.s: the orders of the two flattenMap calls logMatches makes
logMatches(raw, payload, ords) ==
  /\ logMatchesFilter(raw, payload.Filters, ords.f)
  /\ logMatchesSearch(raw, payload.SearchTerm, payload.Regexp, ords.s)

\* ords[i]: the orders of the logMatches call on logs[i]
RECURSIVE FilterLogs(_, _, _)
FilterLogs(logs, payload, ords) ==
  IF logs = <<>> THEN <<>>
  ELSE IF logMatches(Head(logs), payload, Head(ords))
       THEN <<Head(logs)>> \o FilterLogs(Tail(logs), payload, Tail(ords))
       ELSE FilterLogs(Tail(logs), payload, Tail(ords))

(***************************************************************************)
(* SpecSearch: the matching functions applied to arguments drawn at the    *)
(* start.                                                                  *)
(***************************************************************************)
\* letters, a digit class letter, white space (U+00A0: the no-break space)
\* and operators of the regular expression syntax
Alphabet == {"a", "B", "d", " ", "\t", "U+00A0", "[", "]", ".", "*", "\\"}

RECURSIVE StringsUpTo(_)
StringsUpTo(n) ==
  IF n = 0 THEN {<<>>}
  ELSE LET shorter == StringsUpTo(n - 1)
       IN shorter \cup {Append(w, c) : w \in shorter, c \in Alphabet}

Terms == StringsUpTo(MaxTermLen)

\* {"msg": "a[", "user": "B a"} and {"msg": "b", "user": "a"}
RawBracket == ("msg" :> S(<<"a", "[">>)) @@ ("user" :> S(<<"B", " ", "a">>))
RawTwoFields == ("msg" :> S(<<"b">>)) @@ ("user" :> S(<<"a">>))

SearchRaws == {EmptyMap, RawB, RawBracket, RawTwoFields, RawDotted, RawMisc}

ValueLists == {<<>>, <<<<"a">>>>, <<<<"a">>, <<"b">>>>, <<<<>>>>, <<<<"A", "b">>, <<"x">>>>}

FilterProps == {"level", "msg", "a.b"}

FilterMaps == UNION {[ps -> ValueLists] : ps \in SUBSET FilterProps}

FilterValues == {NilFilters} \cup {Filters(m) : m \in FilterMaps}

SearchRequests ==
  UNION {[kind : {"search"}, raw : {raw}, term : Terms, regexp : BOOLEAN, ord : FlattenOrders(raw)] :
           raw \in SearchRaws}

FilterRequests ==
  UNION {[kind : {"filter"}, raw : {raw}, filter : FilterValues, ord : FlattenOrders(raw)] :
           raw \in SearchRaws \cup Raws}

EvalSearch ==
  /\ req.kind = "search"
  /\ ret' = [op |-> "logMatchesSearch",
             tokens |-> splitOnWhitespace(ToLower(req.term)),
             result |-> logMatchesSearch(req.raw, req.term, req.regexp, req.ord)]
  /\ UNCHANGED <<idCounter, logOrder, logStore, logBuffer, index, blacklist, pc, local, appended, req, wsVars>>

EvalFilter ==
  /\ req.kind = "filter"
  /\ ret' = [op |-> "logMatchesFilter",
             result |-> logMatchesFilter(req.raw, req.filter, req.ord)]
  /\ UNCHANGED <<idCounter, logOrder, logStore, logBuffer, index, blacklist, pc, local, appended, req, wsVars>>

InitSearch == InitManager /\ InitCoordinator /\ req \in SearchRequests \cup FilterRequests

NextSearch == EvalSearch \/ EvalFilter

SpecSearch == InitSearch /\ [][NextSearch]_vars

(***************************************************************************)
(* Properties of the matching functions                                    *)
(***************************************************************************)
\* the flat-view value of property p, the empty string when p is absent
FlatValue(raw, p, ord) == MapGetStr(flattenMap(raw, ord), p)

\* C6: an entry matches a filter map iff, for every filtered property, the
\* entry's flat-view value for that property is one of the listed values (OR
\* within a property, AND across properties); a property with an empty value
\* list fails every entry; an absent or empty filter map matches every entry.
C6_FilterSemantics ==
  ret.op = "logMatchesFilter" =>
    LET f == req.filter
    IN /\ ret.result =
            (f.isNil \/ \A p \in DOMAIN f.m :
                           \E i \in 1..Len(f.m[p]) : f.m[p][i] = FlatValue(req.raw, p, req.ord))
       /\ (~f.isNil /\ \E p \in DOMAIN f.m : f.m[p] = <<>>) => ~ret.result
       /\ (f.isNil \/ DOMAIN f.m = {}) => ret.result

\* a match on two filtered properties, one of them through the second value
\* of its list
C6_Witness ==
  /\ ret.op = "logMatchesFilter"
  /\ ret.result
  /\ Cardinality(DOMAIN req.filter.m) = 2
  /\ \E p \in DOMAIN req.filter.m :
       Len(req.filter.m[p]) = 2 /\ req.filter.m[p][2] = FlatValue(req.raw, p, req.ord)

\* the tokens of a term: its maximal runs of non-whitespace characters
TokenAt(term, i, j) ==
  /\ \A k \in i..j : ~IsWhitespace(term[k])
  /\ i = 1 \/ IsWhitespace(term[i - 1])
  /\ j = Len(term) \/ IsWhitespace(term[j + 1])

Tokens(term) ==
  {SubSeq(term, i, j) : <<i, j>> \in {ij \in (1..Len(term)) \X (1..Len(term)) :
                                        ij[1] <= ij[2] /\ TokenAt(term, ij[1], ij[2])}}

\* every token is a case-insensitive substring of some flattened value
TokensAllFound(term, raw, ord) ==
  \A token \in Tokens(term) :
    \E k \in DOMAIN flattenMap(raw, ord) :
      Contains(ToLower(flattenMap(raw, ord)[k]), ToLower(token))

\* C7: in literal mode the term is split on whitespace into tokens and the
\* entry matches iff every token is a case-insensitive substring of at least
\* one flattened value (tokens may be found in different fields); an empty
\* term, or one without a non-whitespace token, matches every entry.
C7_LiteralSearch ==
  (ret.op = "logMatchesSearch" /\ ~req.regexp) =>
    /\ {ret.tokens[i] : i \in 1..Len(ret.tokens)} = {ToLower(t) : t \in Tokens(req.term)}
    /\ ret.result = TokensAllFound(req.term, req.raw, req.ord)
    /\ Tokens(req.term) = {} => ret.result

\* two tokens found in two different fields, neither field holding both
C7_Witness ==
  /\ ret.op = "logMatchesSearch"
  /\ ~req.regexp
  /\ ret.result
  /\ Len(ret.tokens) = 2
  /\ req.raw = RawTwoFields

\* a term that does not compile, searched in regex mode
InvalidRegexpSearch ==
  ret.op = "logMatchesSearch" /\ req.regexp /\ req.term # <<>> /\ ~regexpCompiles(req.term)

\* C8 as stated: a term that is not a valid regular expression is searched
\* as a case-insensitive literal substring, whole and unsplit.
C8_WholeTermFallback ==
  InvalidRegexpSearch =>
    ret.result = \E k \in DOMAIN flattenMap(req.raw, req.ord) :
                   Contains(ToLower(flattenMap(req.raw, req.ord)[k]), ToLower(req.term))

\* C8: in regex mode a term that is not a valid regular expression produces
\* no error and is searched as in literal mode: the entry matches iff every
\* whitespace-separated token of the term is a case-insensitive substring of
\* at least one flattened value.
C8_InvalidRegexpFallsBack ==
  InvalidRegexpSearch =>
    /\ ret.result \in BOOLEAN
    /\ ret.result = TokensAllFound(req.term, req.raw, req.ord)

\* the tokens of the term are found, the whole term is nowhere
C8_Witness ==
  /\ InvalidRegexpSearch
  /\ ret.result
  /\ Len(ret.tokens) = 2
  /\ \A k \in DOMAIN flattenMap(req.raw, req.ord) :
       ~Contains(ToLower(flattenMap(req.raw, req.ord)[k]), ToLower(req.term))

(***************************************************************************)
(* Properties of SearchLogs                                                *)
(***************************************************************************)
Min(a, b) == IF a < b THEN a ELSE b

\* the appended objects of the k largest ids of the set ids, oldest first
MostRecent(ids, k) ==
  LET top == {id \in ids : Cardinality({other \in ids : other > id}) < k}
  IN [j \in 1..Min(k, Cardinality(ids)) |->
        appended[CHOOSE id \in top : Cardinality({other \in top : other <= id}) = j]]

\* one choice of orders for every id of ids, the orders of its appended entry
OrdersOfIds(ids) == Choices([id \in ids |-> OrdersFor(appended[id])])

\* C10: SearchLogs(query, n) returns the min(n, m) most recently appended
\* retained entries that match the query, m being the number of retained
\* matching entries, oldest first; with an empty query it returns the last
\* min(n, count) retained entries.  Whether an entry matches is what
\* logMatches answers under one of the orders flattenMap can take on it.
C10_SearchLogsMostRecent ==
  ret.op = "SearchLogs" =>
    /\ \E os \in OrdersOfIds(DOMAIN logStore) :
         /\ ret.result.Logs =
              MostRecent({id \in DOMAIN logStore : lm_logMatches(appended[id], req.query, os[id])},
                         req.n)
    /\ req.query = QueryEmpty => ret.result.Logs = MostRecent(DOMAIN logStore, req.n)

\* after an eviction, a query that both retained entries match, cut to the
\* most recent one
C10_Witness ==
  /\ ret.op = "SearchLogs"
  /\ idCounter > MaxLogs
  /\ req.query = QueryLevelAB
  /\ req.n = 1
  /\ \A id \in DOMAIN logStore : lm_logMatches(appended[id], req.query, CanonicalOrders(appended[id]))
  /\ Cardinality(DOMAIN logStore) = 2
  /\ ret.result.Logs = <<appended[idCounter]>>
  /\ appended[idCounter] # appended[idCounter - 1]

(***************************************************************************)
(* The websocket coordinator (main): wsHandler of each connection, the     *)
(* flush worker sendBufferedLogs, wsBroadcastLoop, the status timer and    *)
(* main's read loop, with the peers as the environment.                    *)
(***************************************************************************)
SetLogsLimit == 1000
MaxInbox == 1

WsRaws == {RawA, RawB}

WsQueries == {QueryLevelBTermA, QueryTermB}

\* what a peer writes; ok is whether json.Unmarshal accepts it
ClientMessages ==
  {[ok |-> TRUE, type |-> "set_search", payload |-> q] : q \in WsQueries}
    \cup {[ok |-> TRUE, type |-> "set_status", payload |-> QueryLevelAB],
          [ok |-> FALSE, type |-> "set_search", payload |-> QueryTermB]}

\* getStatusMessage; allocatedMemory, a reading of the runtime, is left out
getStatusMessage == [type |-> "set_status", payload |-> [logsStored |-> GetLogsCount(logStore)]]

\* conn.WriteMessage on connection c: msgs reach the peer of an open connection
Written(c, msgs) == IF conn[c] = "open" THEN msgs ELSE <<>>

CountType(msgs, type) == Cardinality({i \in DOMAIN msgs : msgs[i].type = type})

\* app.js keeps the last 1000 entries of its list
DisplayLimit == 1000

\* app.js, line 74: logs.push(...msg.payload) hands every element of the
\* payload to push as an argument of one call.  How many arguments a call
\* takes is up to the engine and the stack it runs with; with fewer than
\* this many elements the call goes through on the engines measured, and
\* from here on it goes through or throws a RangeError
SpreadMin == 63605

\* handleWSMessage, as far as logs goes: the values logs can have after the
\* message msg.  set_logs assigns the whole payload, the object {logs,
\* indexCounts} the server sends; add_logs pushes onto an array and keeps
\* its last 1000 elements; on the payload object logs.push is not a
\* function and the handler throws a TypeError, with a payload the engine
\* does not take as arguments it throws a RangeError, and logs stays as it
\* is; the other messages leave logs alone
handleWSMessage(logs, msg) ==
  CASE msg.type = "set_logs" -> {[isArray |-> FALSE, items |-> <<>>, payload |-> msg.payload]}
    [] msg.type = "add_logs" /\ logs.isArray ->
         LET all == logs.items \o msg.payload
             pushed == [logs EXCEPT !.items = IF Len(all) > DisplayLimit
                                              THEN SubSeq(all, Len(all) - DisplayLimit + 1, Len(all))
                                              ELSE all]
         IN IF Len(msg.payload) < SpreadMin THEN {pushed} ELSE {pushed, logs}
    [] OTHER -> {logs}

\* the entries written to a connection, after the messages msgs
RECURSIVE Receive(_, _)
Receive(got, msgs) ==
  IF msgs = <<>> THEN got
  ELSE LET m == Head(msgs)
       IN CASE m.type = "set_logs" -> Receive([snapshot |-> m.payload.logs, added |-> <<>>], Tail(msgs))
            [] m.type = "add_logs" -> Receive([got EXCEPT !.added = @ \o m.payload], Tail(msgs))
            [] OTHER -> Receive(got, Tail(msgs))

\* the messages among msgs that handleWSMessage lets change logs
ListMessages(msgs) == SelectSeq(msgs, LAMBDA m : m.type \in {"set_logs", "add_logs"})

\* the step wrote out[c] to each connection c: conn.WriteMessage, line 865.
\* What is written to a connection a page has made is on its way to the
\* onmessage of that socket; the step runs no code of a page.
Deliver(out) ==
  /\ sent' = out
  /\ nSetLogs' = [c \in Conns |-> nSetLogs[c] + CountType(out[c], "set_logs")]
  /\ received' = [c \in Conns |-> Receive(received[c], out[c])]
  /\ socket' = [c \in Conns |-> IF socket[c].page = 0 THEN socket[c]
                                 ELSE [socket[c] EXCEPT !.inflight = @ \o ListMessages(out[c])]]
  /\ page' = page

Nothing == [c \in Conns |-> <<>>]

\* wsSend(client of c, msg) and nothing to the others
wsSend(c, msg) == [Nothing EXCEPT ![c] = Written(c, <<msg>>)]

\* wsClientsMu is held by sendBufferedLogs, from line 810 to line 826
FlushHoldsClients == flush.pc \in {"range", "add", "counts", "index", "increase", "upd"}

\* wsClientsMu is held by wsBroadcastLoop, from line 885 to line 895
BroadcastHoldsClients == bpc \in {"range", "remove"}

ClientsMuFree == ~FlushHoldsClients /\ ~BroadcastHoldsClients


\* wsHandler, lines 901 to 907: the upgrade succeeded, the Client is made.
\* Connections are numbered in the order they are made.
Connect(c) ==
  /\ Running
  /\ conn[c] = "none"
  /\ \A d \in Conns : d < c => conn[d] # "none"
  /\ conn' = [conn EXCEPT ![c] = "open"]
  /\ client' = [client EXCEPT ![c] = NewClient]
  /\ hpc' = [hpc EXCEPT ![c] = "register"]
  /\ Deliver(Nothing)
  /\ UNCHANGED <<idCounter, logOrder, logStore, logBuffer, index, blacklist, pc, local, appended, req, ret, gic>>
  /\ UNCHANGED <<wsClients, hreq, hres, hout, inbox, csent, bpc, bmsg, brange, tick, flush, nSetSearch, lk>>

\* wsHandler, lines 908 to 910: under wsClientsMu
HRegister(c) ==
  /\ Running
  /\ hpc[c] = "register"
  /\ ClientsMuFree
  /\ wsClients' = wsClients \cup {c}
  /\ hpc' = [hpc EXCEPT ![c] = "status"]
  /\ Deliver(Nothing)
  /\ UNCHANGED <<idCounter, logOrder, logStore, logBuffer, index, blacklist, pc, local, appended, req, ret, gic>>
  /\ UNCHANGED <<client, conn, hreq, hres, hout, inbox, csent, bpc, bmsg, brange, tick, flush, nSetSearch, lk>>

\* wsHandler, line 913, as far as line 860 of wsSend: getStatusMessage reads
\* the count under the read lock of logStoreMu, json.Marshal encodes it
HStatus(c) ==
  /\ Running
  /\ hpc[c] = "status"
  /\ StoreMuFree
  /\ hout' = [hout EXCEPT ![c] = Encoded(getStatusMessage)]
  /\ hpc' = [hpc EXCEPT ![c] = "wStatus"]
  /\ Deliver(Nothing)
  /\ UNCHANGED <<idCounter, logOrder, logStore, logBuffer, index, blacklist, pc, local, appended, req, ret, gic>>
  /\ UNCHANGED <<wsClients, client, conn, hreq, hres, inbox, csent, bpc, bmsg, brange, tick, flush, nSetSearch, lk>>

\* wsSend, lines 864 to 866, for the set_status of line 913: the encoded
\* message is written under writeMu
HStatusWrite(c) ==
  /\ Running
  /\ hpc[c] = "wStatus"
  /\ Deliver(wsSend(c, hout[c].msg))
  /\ hout' = [hout EXCEPT ![c] = NoEncoded]
  /\ hpc' = [hpc EXCEPT ![c] = "read"]
  /\ UNCHANGED <<idCounter, logOrder, logStore, logBuffer, index, blacklist, pc, local, appended, req, ret, gic>>
  /\ UNCHANGED <<wsClients, client, conn, hreq, hres, inbox, csent, bpc, bmsg, brange, tick, flush, nSetSearch, lk>>

\* the peer of c writes a message
ClientWrite(c, msg) ==
  /\ Running
  /\ conn[c] = "open"
  /\ csent < MaxClientMsgs
  /\ Len(inbox[c]) < MaxInbox
  /\ inbox' = [inbox EXCEPT ![c] = Append(@, msg)]
  /\ csent' = csent + 1
  /\ Deliver(Nothing)
  /\ UNCHANGED <<idCounter, logOrder, logStore, logBuffer, index, blacklist, pc, local, appended, req, ret, gic>>
  /\ UNCHANGED <<wsClients, client, conn, hpc, hreq, hres, hout, bpc, bmsg, brange, tick, flush, nSetSearch, lk>>

\* the peer of c goes away, or the network between them does
PeerLost(c) ==
  /\ Running
  /\ conn[c] = "open"
  /\ conn' = [conn EXCEPT ![c] = "gone"]
  /\ Deliver(Nothing)
  /\ UNCHANGED <<idCounter, logOrder, logStore, logBuffer, index, blacklist, pc, local, appended, req, ret, gic>>
  /\ UNCHANGED <<wsClients, client, hpc, hreq, hres, hout, inbox, csent, bpc, bmsg, brange, tick, flush, nSetSearch, lk>>

\* wsHandler, lines 916 and 923 to 928: ReadMessage returns a message, which
\* is decoded; any message but a decodable set_search is dropped
HRecv(c) ==
  /\ Running
  /\ hpc[c] = "read"
  /\ conn[c] \in {"open", "gone", "failed"}
  /\ inbox[c] # <<>>
  /\ inbox' = [inbox EXCEPT ![c] = Tail(@)]
  /\ IF Head(inbox[c]).ok /\ Head(inbox[c]).type = "set_search"
     THEN /\ hpc' = [hpc EXCEPT ![c] = "setPayload"]
          /\ hreq' = [hreq EXCEPT ![c] = Head(inbox[c]).payload]
          /\ nSetSearch' = [nSetSearch EXCEPT ![c] = @ + 1]
     ELSE UNCHANGED <<hpc, hreq, nSetSearch>>
  /\ Deliver(Nothing)
  /\ UNCHANGED <<idCounter, logOrder, logStore, logBuffer, index, blacklist, pc, local, appended, req, ret, gic>>
  /\ UNCHANGED <<wsClients, client, conn, hres, hout, csent, bpc, bmsg, brange, tick, flush, lk>>

\* wsHandler, lines 916 and 917: ReadMessage returns an error; the handler
\* goes on to ask for wsClientsMu
HReadError(c) ==
  /\ Running
  /\ hpc[c] = "read"
  /\ conn[c] \in {"gone", "failed", "closed"}
  /\ hpc' = [hpc EXCEPT ![c] = "remove"]
  /\ Deliver(Nothing)
  /\ UNCHANGED <<idCounter, logOrder, logStore, logBuffer, index, blacklist, pc, local, appended, req, ret, gic>>
  /\ UNCHANGED <<wsClients, client, conn, hreq, hres, hout, inbox, csent, bpc, bmsg, brange, tick, flush, nSetSearch, lk>>

\* wsHandler, lines 918 to 920: the client leaves the registry under
\* wsClientsMu; the lock is free again and the connection is not closed yet
HRemove(c) ==
  /\ Running
  /\ hpc[c] = "remove"
  /\ ClientsMuFree
  /\ wsClients' = wsClients \ {c}
  /\ hpc' = [hpc EXCEPT ![c] = "close"]
  /\ Deliver(Nothing)
  /\ UNCHANGED <<idCounter, logOrder, logStore, logBuffer, index, blacklist, pc, local, appended, req, ret, gic>>
  /\ UNCHANGED <<client, conn, hreq, hres, hout, inbox, csent, bpc, bmsg, brange, tick, flush, nSetSearch, lk>>

\* wsHandler, line 921 and the deferred conn.Close() of line 906: the loop
\* is left, the handler returns and its connection is closed
HClose(c) ==
  /\ Running
  /\ hpc[c] = "close"
  /\ conn' = [conn EXCEPT ![c] = "closed"]
  /\ inbox' = [inbox EXCEPT ![c] = <<>>]
  /\ hpc' = [hpc EXCEPT ![c] = "off"]
  /\ Deliver(Nothing)
  /\ UNCHANGED <<idCounter, logOrder, logStore, logBuffer, index, blacklist, pc, local, appended, req, ret, gic>>
  /\ UNCHANGED <<wsClients, client, hreq, hres, hout, csent, bpc, bmsg, brange, tick, flush, nSetSearch, lk>>

\* variant: one query for all the clients
HSetPayload_Shared(c) ==
  /\ Running
  /\ hpc[c] = "setPayload"
  /\ ClientsMuFree
  /\ client' = [d \in Conns |-> [client[d] EXCEPT !.searchPayload = hreq[c]]]
  /\ hpc' = [hpc EXCEPT ![c] = "search"]
  /\ Deliver(Nothing)
  /\ UNCHANGED <<idCounter, logOrder, logStore, logBuffer, index, blacklist, pc, local, appended, req, ret, gic>>
  /\ UNCHANGED <<wsClients, conn, hreq, hres, hout, inbox, csent, bpc, bmsg, brange, tick, flush, nSetSearch, lk>>

\* wsHandler, lines 929 to 933: under wsClientsMu
HSetPayload(c) ==
  /\ Running
  /\ hpc[c] = "setPayload"
  /\ ClientsMuFree
  /\ client' = IF c \in wsClients
               THEN [client EXCEPT ![c].searchPayload = hreq[c]]
               ELSE client
  /\ hpc' = [hpc EXCEPT ![c] = "search"]
  /\ Deliver(Nothing)
  /\ UNCHANGED <<idCounter, logOrder, logStore, logBuffer, index, blacklist, pc, local, appended, req, ret, gic>>
  /\ UNCHANGED <<wsClients, conn, hreq, hres, hout, inbox, csent, bpc, bmsg, brange, tick, flush, nSetSearch, lk>>

\* wsHandler, line 935: SearchLogs, under the read lock of logStoreMu
HSearch(c) ==
  /\ Running
  /\ hpc[c] = "search"
  /\ StoreMuFree
  /\ \E ords \in SearchOrders(Manager) :
       hres' = [hres EXCEPT ![c] = SearchLogs(Manager, hreq[c], SetLogsLimit, ords)]
  /\ hpc' = [hpc EXCEPT ![c] = "assign"]
  /\ Deliver(Nothing)
  /\ UNCHANGED <<idCounter, logOrder, logStore, logBuffer, index, blacklist, pc, local, appended, req, ret, gic>>
  /\ UNCHANGED <<wsClients, client, conn, hreq, hout, inbox, csent, bpc, bmsg, brange, tick, flush, nSetSearch, lk>>

\* wsHandler, line 936: the Client now holds the map of the result
HAssign(c) ==
  /\ Running
  /\ hpc[c] = "assign"
  /\ client' = [client EXCEPT ![c].indexCounts = Counts(hres[c].IndexCounts)]
  /\ hpc' = [hpc EXCEPT ![c] = "send"]
  /\ Deliver(Nothing)
  /\ UNCHANGED <<idCounter, logOrder, logStore, logBuffer, index, blacklist, pc, local, appended, req, ret, gic>>
  /\ UNCHANGED <<wsClients, conn, hreq, hres, hout, inbox, csent, bpc, bmsg, brange, tick, flush, nSetSearch, lk>>

\* the values the map counts takes in the loop that counts one entry: the
\* new bucket of line 694, the count increased at line 696
RECURSIVE countFlatTrace(_, _, _, _)
countFlatTrace(counts, bl, flat, keys) ==
  IF keys = <<>> THEN <<>>
  ELSE LET propName == Head(keys)
           made == IF propName \in DOMAIN counts THEN counts ELSE MapSet(counts, propName, EmptyMap)
           next == IncrCount(counts, propName, flat[propName])
       IN IF omitIndexValue(bl, propName, flat[propName])
          THEN countFlatTrace(counts, bl, flat, Tail(keys))
          ELSE (IF propName \in DOMAIN counts THEN <<>> ELSE <<made>>)
               \o <<next>> \o countFlatTrace(next, bl, flat, Tail(keys))

\* a map that took the values states got a bucket, or one of its buckets a
\* value, between the first of them and the last
MapGrows(states) ==
  \E s \in states, t \in states :
    \/ DOMAIN s # DOMAIN t
    \/ \E propName \in DOMAIN s \cap DOMAIN t : DOMAIN s[propName] # DOMAIN t[propName]

\* json.Marshal in wsSend, line 860, of the set_logs reply of c.  The
\* indexCounts of the payload is the map the Client holds since line 936,
\* and no lock is held: sendBufferedLogs can run increaseClientIndexCounts
\* on the map while it is encoded, any number of times before the reply is
\* written.  The encoding ranges over the map and over each bucket; what it
\* finds in each place is what one of the values the map has taken since
\* the encoding began (hout[c].during) holds there.  The encoder sizes its
\* list of keys by the length of a map before it ranges over it: when the
\* range produces a key that line 694 or 696 added after that, the encoder
\* indexes past the end of the list and json.Marshal panics.  An outcome
\* is the counts encoded, or the panic.
MarshalIndexCounts(c) ==
  {[panics |-> FALSE, counts |-> counts] :
     counts \in IF Cardinality(hout[c].during) = 1 THEN hout[c].during
                ELSE RacyCounts(hout[c].during)}
  \cup (IF MapGrows(hout[c].during) THEN {[panics |-> TRUE, counts |-> EmptyMap]} ELSE {})

\* wsHandler, lines 937 to 943, as far as line 860 of wsSend: the reply is
\* built and its encoding begins
HSend(c) ==
  /\ Running
  /\ hpc[c] = "send"
  /\ hout' = [hout EXCEPT ![c] =
                [msg |-> [type |-> "set_logs",
                          payload |-> [logs |-> hres[c].Logs, indexCounts |-> client[c].indexCounts.m]],
                 during |-> {client[c].indexCounts.m}]]
  /\ hpc' = [hpc EXCEPT ![c] = "wSetLogs"]
  /\ Deliver(Nothing)
  /\ UNCHANGED <<idCounter, logOrder, logStore, logBuffer, index, blacklist, pc, local, appended, req, ret, gic>>
  /\ UNCHANGED <<wsClients, client, conn, hreq, hres, inbox, csent, bpc, bmsg, brange, tick, flush, nSetSearch, lk>>

\* wsSend, lines 860 to 866, for the set_logs reply: the encoding ends and
\* the message is written under writeMu.  Or json.Marshal panics: nothing
\* is written, the panic unwinds wsSend and wsHandler, the deferred
\* conn.Close() of line 906 runs and net/http recovers the panic in the
\* goroutine that served the request; the handler has ended without line
\* 919, so its client stays in wsClients.
HSendWrite(c) ==
  /\ Running
  /\ hpc[c] = "wSetLogs"
  /\ \E enc \in MarshalIndexCounts(c) :
       IF enc.panics
       THEN /\ Deliver(Nothing)
            /\ conn' = [conn EXCEPT ![c] = "closed"]
            /\ inbox' = [inbox EXCEPT ![c] = <<>>]
            /\ hpc' = [hpc EXCEPT ![c] = "panicked"]
       ELSE /\ Deliver(wsSend(c, [hout[c].msg EXCEPT !.payload.indexCounts = enc.counts]))
            /\ hpc' = [hpc EXCEPT ![c] = "read"]
            /\ UNCHANGED <<conn, inbox>>
  /\ hres' = [hres EXCEPT ![c] = NoResult]
  /\ hreq' = [hreq EXCEPT ![c] = QueryEmpty]
  /\ hout' = [hout EXCEPT ![c] = NoEncoded]
  /\ UNCHANGED <<idCounter, logOrder, logStore, logBuffer, index, blacklist, pc, local, appended, req, ret, gic>>
  /\ UNCHANGED <<wsClients, client, csent, bpc, bmsg, brange, tick, flush, nSetSearch, lk>>

\* sendBufferedLogs, lines 805 to 808: a drain that returns a batch
FlushDrain ==
  /\ Running
  /\ flush.pc = "sleep"
  /\ Len(logBuffer) # 0
  /\ flush' = [FlushIdle EXCEPT !.pc = "lock", !.Logs = logBuffer]
  /\ logBuffer' = <<>>
  /\ Deliver(Nothing)
  /\ UNCHANGED <<idCounter, logOrder, logStore, index, blacklist, pc, local, appended, req, ret, gic>>
  /\ UNCHANGED <<wsClients, client, conn, hpc, hreq, hres, hout, inbox, csent, bpc, bmsg, brange, tick, nSetSearch, lk>>

\* sendBufferedLogs, lines 810 and 811: wsClientsMu is taken, the range
\* over wsClients begins
FlushLock ==
  /\ Running
  /\ flush.pc = "lock"
  /\ ~BroadcastHoldsClients
  /\ flush' = [flush EXCEPT !.pc = "range"]
  /\ Deliver(Nothing)
  /\ UNCHANGED <<idCounter, logOrder, logStore, logBuffer, index, blacklist, pc, local, appended, req, ret, gic>>
  /\ UNCHANGED <<wsClients, client, conn, hpc, hreq, hres, hout, inbox, csent, bpc, bmsg, brange, tick, nSetSearch, lk>>

\* variant: the whole batch is sent, whatever the stored query
FlushClient_Unfiltered(c, logs, ords) ==
  [type |-> "add_logs", payload |-> logs]

\* sendBufferedLogs, lines 812 to 817, for client c: the add_logs message,
\* or none; ords[i] holds the orders of the flattenMap calls FilterLogs
\* makes on logs[i]
FlushClient(c, logs, ords) ==
  LET logsToSend == lm_FilterLogs(logs, client[c].searchPayload, ords)
  IN IF Len(logsToSend) > 0
     THEN [type |-> "add_logs", payload |-> logsToSend]
     ELSE NoMessage

\* sendBufferedLogs, lines 811 to 817 as far as line 860 of wsSend: the
\* range takes the next client, in any order, and the batch is filtered
FlushNext(c) ==
  /\ Running
  /\ flush.pc = "range"
  /\ c \in wsClients \ flush.seen
  /\ \E ords \in OrderSeqs(flush.Logs) :
       \E msg \in {FlushClient(c, flush.Logs, ords)} :
         flush' = [flush EXCEPT !.pc = IF msg = NoMessage THEN "counts" ELSE "add",
                                !.cur = c, !.seen = @ \cup {c}, !.msg = msg]
  /\ Deliver(Nothing)
  /\ UNCHANGED <<idCounter, logOrder, logStore, logBuffer, index, blacklist, pc, local, appended, req, ret, gic>>
  /\ UNCHANGED <<wsClients, client, conn, hpc, hreq, hres, hout, inbox, csent, bpc, bmsg, brange, tick, nSetSearch, lk>>

\* the errors WriteMessage on connection c can return: a write to a
\* connection whose peer is lost fails or not, a write to a connection that
\* was closed fails
WriteErrors(c) ==
  IF conn[c] = "closed" THEN {TRUE}
  ELSE IF conn[c] \in {"gone", "failed"} THEN BOOLEAN
  ELSE {FALSE}

\* the connections after a write on c that returned err
AfterWrite(c, err) == IF err /\ conn[c] # "closed" THEN [conn EXCEPT ![c] = "failed"] ELSE conn

\* wsSend, lines 864 to 866, for the add_logs of line 814: wsSend returns
\* the error of a failed write and sendBufferedLogs drops it, the registry
\* stays as it is
FlushAddLogs ==
  /\ Running
  /\ flush.pc = "add"
  /\ \E err \in WriteErrors(flush.cur) : conn' = AfterWrite(flush.cur, err)
  /\ Deliver(wsSend(flush.cur, flush.msg))
  /\ flush' = [flush EXCEPT !.pc = "counts", !.msg = NoMessage]
  /\ UNCHANGED <<idCounter, logOrder, logStore, logBuffer, index, blacklist, pc, local, appended, req, ret, gic>>
  /\ UNCHANGED <<wsClients, client, hpc, hreq, hres, hout, inbox, csent, bpc, bmsg, brange, tick, nSetSearch, lk>>

\* the number of times the handler of c has run line 936
Assigned(c) == nSetSearch[c] - (IF hpc[c] \in {"setPayload", "search", "assign"} THEN 1 ELSE 0)

\* the map increaseClientIndexCounts was called with (line 822) is still
\* the one the Client of flush.cur holds: line 936 has not replaced it
FlushAttached == Assigned(flush.cur) = flush.gen

\* sendBufferedLogs, line 819, and then line 820 as far as line 716 of
\* GetIndexCounts, or line 822 as far as the flattenMap call of line 688 for
\* the first entry of the batch: wsClientsMu does not order these reads of
\* client.indexCounts with line 936
FlushCounts ==
  /\ Running
  /\ flush.pc = "counts"
  /\ IF client[flush.cur].indexCounts.isNil
     THEN /\ gic.pc = "idle"
          /\ gic' = GicBegin("flush", 1)
          /\ flush' = [flush EXCEPT !.pc = "index"]
     ELSE /\ \E flat \in Flats(flush.Logs[1]) :
               flush' = [flush EXCEPT !.pc = "increase", !.k = 1, !.gen = Assigned(flush.cur),
                                      !.flat = flat, !.keys = {}]
          /\ UNCHANGED gic
  /\ Deliver(Nothing)
  /\ UNCHANGED <<idCounter, logOrder, logStore, logBuffer, index, blacklist, pc, local, appended, req, ret>>
  /\ UNCHANGED <<wsClients, client, conn, hpc, hreq, hres, hout, inbox, csent, bpc, bmsg, brange, tick, nSetSearch, lk>>

\* sendBufferedLogs, line 820: GetIndexCounts makes the iterations it has
\* left and returns, and sendUpdateIndexMessage goes as far as line 860 of
\* wsSend
FlushIndex ==
  /\ Running
  /\ flush.pc = "index"
  /\ \E counts \in GicResults :
       flush' = [flush EXCEPT !.pc = "upd", !.msg = [type |-> "update_index", payload |-> counts]]
  /\ gic' = GicIdle
  /\ Deliver(Nothing)
  /\ UNCHANGED <<idCounter, logOrder, logStore, logBuffer, index, blacklist, pc, local, appended, req, ret>>
  /\ UNCHANGED <<wsClients, client, conn, hpc, hreq, hres, hout, inbox, csent, bpc, bmsg, brange, tick, nSetSearch, lk>>

\* increaseClientIndexCounts counts an entry into the map of c while the
\* handler of c encodes that map for its set_logs reply
MarshalRuns(c) == hpc[c] = "wSetLogs"

\* the next iteration of increaseClientIndexCounts' inner loop can be one in
\* which omitIndexValue reads lm.blacklist (line 708)
BlacklistReadRuns ==
  /\ flush.pc = "increase"
  /\ \E propName \in DOMAIN flush.flat \ flush.keys :
       flush.flat[propName] # <<>> /\ ByteLen(flush.flat[propName]) <= MaxIndexValueLength

\* sendBufferedLogs, line 822: one iteration of the inner loop of
\* increaseClientIndexCounts (lines 689 to 697), which counts one property
\* of entry flush.k of the batch into the map of line 822; or, when the
\* range over the entry is over, line 688 for the next entry; or, after the
\* last entry, line 823, which reads client.indexCounts again, as far as
\* line 860 of wsSend.  omitIndexValue reads lm.blacklist without
\* logStoreMu.  The runtime can end the process where the encoding of the
\* handler's reply meets the increment.
FlushIncrease ==
  /\ Running
  /\ flush.pc = "increase"
  /\ IF DOMAIN flush.flat \ flush.keys = {}
     THEN /\ IF flush.k < Len(flush.Logs)
             THEN \E flat \in Flats(flush.Logs[flush.k + 1]) :
                    flush' = [flush EXCEPT !.k = @ + 1, !.flat = flat, !.keys = {}]
             ELSE flush' = [flush EXCEPT !.pc = "upd", !.k = 0, !.gen = 0, !.flat = EmptyMap, !.keys = {},
                                         !.msg = [type |-> "update_index",
                                                  payload |-> client[flush.cur].indexCounts.m]]
          /\ UNCHANGED <<ret, client, hout>>
     ELSE \E propName \in DOMAIN flush.flat \ flush.keys :
            \E trace \in {countFlatTrace(client[flush.cur].indexCounts.m, blacklist, flush.flat,
                                         <<propName>>)} :
              \/ /\ FlushAttached /\ MarshalRuns(flush.cur) /\ trace # <<>>
                 /\ ret' = Fatal
                 /\ UNCHANGED <<client, hout, flush>>
              \/ /\ UNCHANGED ret
                 /\ client' = IF FlushAttached /\ trace # <<>>
                              THEN [client EXCEPT ![flush.cur].indexCounts = Counts(trace[Len(trace)])]
                              ELSE client
                 /\ hout' = IF FlushAttached /\ MarshalRuns(flush.cur)
                            THEN [hout EXCEPT ![flush.cur].during = @ \cup {trace[i] : i \in DOMAIN trace}]
                            ELSE hout
                 /\ flush' = [flush EXCEPT !.keys = @ \cup {propName}]
  /\ Deliver(Nothing)
  /\ UNCHANGED <<idCounter, logOrder, logStore, logBuffer, index, blacklist, pc, local, appended, req, gic>>
  /\ UNCHANGED <<wsClients, conn, hpc, hreq, hres, inbox, csent, bpc, bmsg, brange, tick, nSetSearch, lk>>

\* wsSend, lines 864 to 866, for the update_index of line 820 or 823
FlushUpdateIndex ==
  /\ Running
  /\ flush.pc = "upd"
  /\ \E err \in WriteErrors(flush.cur) : conn' = AfterWrite(flush.cur, err)
  /\ Deliver(wsSend(flush.cur, flush.msg))
  /\ flush' = [flush EXCEPT !.pc = "range", !.cur = 0, !.msg = NoMessage]
  /\ UNCHANGED <<idCounter, logOrder, logStore, logBuffer, index, blacklist, pc, local, appended, req, ret, gic>>
  /\ UNCHANGED <<wsClients, client, hpc, hreq, hres, hout, inbox, csent, bpc, bmsg, brange, tick, nSetSearch, lk>>

\* sendBufferedLogs, lines 825 to 827: the range is over, wsClientsMu is
\* released and the worker sleeps
FlushUnlock ==
  /\ Running
  /\ flush.pc = "range"
  /\ wsClients \subseteq flush.seen
  /\ flush' = FlushIdle
  /\ Deliver(Nothing)
  /\ UNCHANGED <<idCounter, logOrder, logStore, logBuffer, index, blacklist, pc, local, appended, req, ret, gic>>
  /\ UNCHANGED <<wsClients, client, conn, hpc, hreq, hres, hout, inbox, csent, bpc, bmsg, brange, tick, nSetSearch, lk>>

\* wsBroadcastMsg, lines 875 to 879, on the channel state b = [bpc, bmsg]:
\* the unbuffered channel takes the message only if wsBroadcastLoop is
\* blocked receiving
wsBroadcastMsg(b, msg) ==
  IF b.bpc = "recv" THEN [bpc |-> "deliver", bmsg |-> msg] ELSE b

\* broadcastDroppedIndexKeysMessage(droppedKeys)
broadcastDroppedIndexKeysMessage(b, droppedKeys) ==
  wsBroadcastMsg(b, [type |-> "drop_index", payload |-> droppedKeys])

\* wsBroadcastLoop, line 884: the loop reaches the receive and blocks
BroadcastWait ==
  /\ Running
  /\ bpc = "loop"
  /\ bpc' = "recv"
  /\ Deliver(Nothing)
  /\ UNCHANGED <<idCounter, logOrder, logStore, logBuffer, index, blacklist, pc, local, appended, req, ret, gic>>
  /\ UNCHANGED <<wsClients, client, conn, hpc, hreq, hres, hout, inbox, csent, bmsg, brange, tick, flush, nSetSearch, lk>>

\* wsBroadcastLoop, lines 885 and 886: with a message from the channel the
\* loop takes wsClientsMu and begins its range over wsClients
BroadcastLock ==
  /\ Running
  /\ bpc = "deliver"
  /\ ~FlushHoldsClients
  /\ bpc' = "range"
  /\ brange' = NoRange
  /\ Deliver(Nothing)
  /\ UNCHANGED <<idCounter, logOrder, logStore, logBuffer, index, blacklist, pc, local, appended, req, ret, gic>>
  /\ UNCHANGED <<wsClients, client, conn, hpc, hreq, hres, hout, inbox, csent, bmsg, tick, flush, nSetSearch, lk>>

\* wsBroadcastLoop, lines 886 to 890: the range takes the next client, in
\* any order, and the message is written under its writeMu.  A write to a
\* connection whose peer is lost fails or not.
BroadcastDeliver(c) ==
  /\ Running
  /\ bpc = "range"
  /\ c \in wsClients \ brange.seen
  /\ Deliver(wsSend(c, bmsg))
  /\ \E err \in WriteErrors(c) :
       /\ bpc' = IF err THEN "remove" ELSE "range"
       /\ brange' = [seen |-> brange.seen \cup {c}, cur |-> IF err THEN c ELSE 0]
  /\ UNCHANGED <<idCounter, logOrder, logStore, logBuffer, index, blacklist, pc, local, appended, req, ret, gic>>
  /\ UNCHANGED <<wsClients, client, conn, hpc, hreq, hres, hout, inbox, csent, bmsg, tick, flush, nSetSearch, lk>>

\* wsBroadcastLoop, lines 891 and 892, after a failed write: the connection
\* is closed and the client leaves the registry
BroadcastRemove ==
  /\ Running
  /\ bpc = "remove"
  /\ conn' = [conn EXCEPT ![brange.cur] = "closed"]
  /\ wsClients' = wsClients \ {brange.cur}
  /\ bpc' = "range"
  /\ brange' = [brange EXCEPT !.cur = 0]
  /\ Deliver(Nothing)
  /\ UNCHANGED <<idCounter, logOrder, logStore, logBuffer, index, blacklist, pc, local, appended, req, ret, gic>>
  /\ UNCHANGED <<client, hpc, hreq, hres, hout, inbox, csent, bmsg, tick, flush, nSetSearch, lk>>

\* wsBroadcastLoop, line 895: the range is over, wsClientsMu is released
BroadcastUnlock ==
  /\ Running
  /\ bpc = "range"
  /\ wsClients \subseteq brange.seen
  /\ bpc' = "loop"
  /\ bmsg' = NoMessage
  /\ brange' = NoRange
  /\ Deliver(Nothing)
  /\ UNCHANGED <<idCounter, logOrder, logStore, logBuffer, index, blacklist, pc, local, appended, req, ret, gic>>
  /\ UNCHANGED <<wsClients, client, conn, hpc, hreq, hres, hout, inbox, csent, tick, flush, nSetSearch, lk>>

\* statusBroadcastLoop, lines 953 and 954 as far as line 871 of
\* wsBroadcastMsg: at a tick of the timer getStatusMessage reads the count
\* under the read lock of logStoreMu and json.Marshal encodes the message
StatusTick ==
  /\ Running
  /\ tick = NoMessage
  /\ StoreMuFree
  /\ tick' = getStatusMessage
  /\ Deliver(Nothing)
  /\ UNCHANGED <<idCounter, logOrder, logStore, logBuffer, index, blacklist, pc, local, appended, req, ret, gic>>
  /\ UNCHANGED <<wsClients, client, conn, hpc, hreq, hres, hout, inbox, csent, bpc, bmsg, brange, flush, nSetSearch, lk>>

\* wsBroadcastMsg, lines 875 to 879, for the status message: the select
StatusOffer ==
  /\ Running
  /\ tick # NoMessage
  /\ bpc' = wsBroadcastMsg([bpc |-> bpc, bmsg |-> bmsg], tick).bpc
  /\ bmsg' = wsBroadcastMsg([bpc |-> bpc, bmsg |-> bmsg], tick).bmsg
  /\ tick' = NoMessage
  /\ Deliver(Nothing)
  /\ UNCHANGED <<idCounter, logOrder, logStore, logBuffer, index, blacklist, pc, local, appended, req, ret, gic>>
  /\ UNCHANGED <<wsClients, client, conn, hpc, hreq, hres, hout, inbox, csent, brange, flush, nSetSearch, lk>>

\* AddLogEntry inside its section, as main configures the manager (the
\* DropIndexKeysCallback is broadcastDroppedIndexKeysMessage), from sec: the
\* next step of the iteration is made, and when the iteration is over the
\* range goes on; a section at its end releases logStoreMu (line 471).  A
\* call of the callback offers its message to the channel while logStoreMu
\* is held.  mayCall: the channel lets the call be made.  The runtime can
\* end the process where a write of lm.index meets the range of
\* GetIndexCounts, or a write of lm.blacklist the read in omitIndexValue.
MainSection(t, sec, mayCall) ==
  IF sec.stage = "end"
  THEN /\ StoreUnderLock(t, [logOrder |-> SectionStores(local[t].id, local[t].raw).logOrder,
                             logStore |-> SectionStores(local[t].id, local[t].raw).logStore,
                             index |-> index, blacklist |-> blacklist, drops |-> sec.drops])
       /\ UNCHANGED <<gic, bpc, bmsg>>
  ELSE \E step \in {Head(sec.steps)} :
         \/ /\ IndexWriteRaces(step) \/ (step.writes = "blacklist" /\ BlacklistReadRuns)
            /\ ret' = Fatal
            /\ UNCHANGED <<idCounter, logOrder, logStore, logBuffer, index, blacklist, pc, local,
                           appended, req, gic, bpc, bmsg>>
         \/ /\ step.call # <<>> => mayCall
            /\ index' = step.index
            /\ blacklist' = step.blacklist
            /\ gic' = GicAfterWrites(index, step.index)
            /\ \E b \in {IF step.call # <<>>
                         THEN broadcastDroppedIndexKeysMessage([bpc |-> bpc, bmsg |-> bmsg], step.call)
                         ELSE [bpc |-> bpc, bmsg |-> bmsg]} :
                 bpc' = b.bpc /\ bmsg' = b.bmsg
            /\ \E drops \in {IF step.call # <<>> THEN Append(sec.drops, step.call) ELSE sec.drops} :
                 \E next \in (IF Len(sec.steps) > 1
                              THEN {[sec EXCEPT !.steps = Tail(@), !.drops = drops]}
                              ELSE SectionNext([sec EXCEPT !.steps = <<>>, !.drops = drops],
                                               local[t].id, local[t].raw, step.index, step.blacklist)) :
                   IF next.stage = "end"
                   THEN /\ logOrder' = SectionStores(local[t].id, local[t].raw).logOrder
                        /\ logStore' = SectionStores(local[t].id, local[t].raw).logStore
                        /\ ret' = [op |-> "store", id |-> local[t].id, drops |-> drops]
                        /\ pc' = [pc EXCEPT ![t] = "buffer"]
                        /\ local' = [local EXCEPT ![t] = [id |-> local[t].id, raw |-> local[t].raw]]
                   ELSE /\ pc' = [pc EXCEPT ![t] = "section"]
                        /\ local' = [local EXCEPT ![t] = [id |-> local[t].id, raw |-> local[t].raw,
                                                          sec |-> next]]
                        /\ UNCHANGED <<logOrder, logStore, ret>>
            /\ UNCHANGED <<idCounter, logBuffer, appended, req>>

\* AddLogEntry, from Lock at line 463 to its first write of lm.index, or to
\* Unlock when it makes none
MainAddLogEntryStore(t) ==
  /\ Running
  /\ pc[t] = "store"
  /\ StoreMuFree
  /\ \E flat \in Flats(local[t].raw) :
       \E sec \in SectionNext(NewSection(flat), local[t].id, local[t].raw, index, blacklist) :
         MainSection(t, sec, TRUE)
  /\ UNCHANGED <<wsClients, client, conn, hpc, hreq, hres, hout, inbox, csent, sent, brange, tick, flush,
                 nSetSearch, nSetLogs, received, page, socket, lk>>

\* the section with a channel send that waits for the broadcast loop to
\* take the message
MainAddLogEntryWrite_Blocking(t) ==
  /\ Running
  /\ pc[t] = "section"
  /\ MainSection(t, local[t].sec, bpc = "recv")
  /\ UNCHANGED <<wsClients, client, conn, hpc, hreq, hres, hout, inbox, csent, sent, brange, tick, flush,
                 nSetSearch, nSetLogs, received, page, socket, lk>>

\* AddLogEntry inside its section: its next write, or its next call of the
\* callback
MainAddLogEntryWrite(t) ==
  /\ Running
  /\ pc[t] = "section"
  /\ MainSection(t, local[t].sec, TRUE)
  /\ UNCHANGED <<wsClients, client, conn, hpc, hreq, hres, hout, inbox, csent, sent, brange, tick, flush,
                 nSetSearch, nSetLogs, received, page, socket, lk>>

(***************************************************************************)
(* SpecWs: the whole program, main's read loop included.                   *)
(***************************************************************************)
InitWs == InitManager /\ InitCoordinator /\ req = NoRequest

NextWs ==
  \/ \E t \in Callers, raw \in WsRaws : idCounter < MaxWsAppends /\ AddLogEntryId(t, raw)
  \/ \E t \in Callers : MainAddLogEntryStore(t)
  \/ \E t \in Callers : MainAddLogEntryWrite(t)
  \/ \E t \in Callers : AddLogEntryBuffer(t)
  \/ FlushDrain
  \/ FlushLock
  \/ \E c \in Conns : FlushNext(c)
  \/ FlushAddLogs
  \/ FlushCounts
  \/ FlushIndex
  \/ FlushIncrease
  \/ FlushUpdateIndex
  \/ FlushUnlock
  \/ BroadcastWait
  \/ BroadcastLock
  \/ \E c \in Conns : BroadcastDeliver(c)
  \/ BroadcastRemove
  \/ BroadcastUnlock
  \/ StatusTick
  \/ StatusOffer
  \/ \E c \in Conns : Connect(c)
  \/ \E c \in Conns : HRegister(c)
  \/ \E c \in Conns : HStatus(c)
  \/ \E c \in Conns : HStatusWrite(c)
  \/ \E c \in Conns, msg \in ClientMessages : ClientWrite(c, msg)
  \/ \E c \in Conns : PeerLost(c)
  \/ \E c \in Conns : HRecv(c)
  \/ \E c \in Conns : HReadError(c)
  \/ \E c \in Conns : HRemove(c)
  \/ \E c \in Conns : HClose(c)
  \/ \E c \in Conns : HSetPayload(c)
  \/ \E c \in Conns : HSearch(c)
  \/ \E c \in Conns : HAssign(c)
  \/ \E c \in Conns : HSend(c)
  \/ \E c \in Conns : HSendWrite(c)

SpecWs == InitWs /\ [][NextWs]_vars

(***************************************************************************)
(* SpecSession: the whole program around one line of input and one message *)
(* of a peer: main's read loop, the flush worker, wsBroadcastLoop, the     *)
(* status timer, and the handlers of two connections whose peers may be    *)
(* lost.  The peer of connection 1 writes one message, a set_search, a     *)
(* message of another type or one that does not decode; the peer of        *)
(* connection 2 listens.                                                   *)
(***************************************************************************)
MaxSessionAppends == 1
MaxSessionMsgs == 1

SessionRaws == {RawA}

SessionWriters == {1}

SessionMessages ==
  {[ok |-> TRUE, type |-> "set_search", payload |-> QueryTermB],
   [ok |-> TRUE, type |-> "set_status", payload |-> QueryLevelAB],
   [ok |-> FALSE, type |-> "set_search", payload |-> QueryTermB]}

NextSession ==
  \/ \E t \in Callers, raw \in SessionRaws : idCounter < MaxSessionAppends /\ AddLogEntryId(t, raw)
  \/ \E t \in Callers : MainAddLogEntryStore(t)
  \/ \E t \in Callers : MainAddLogEntryWrite(t)
  \/ \E t \in Callers : AddLogEntryBuffer(t)
  \/ FlushDrain
  \/ FlushLock
  \/ \E c \in Conns : FlushNext(c)
  \/ FlushAddLogs
  \/ FlushCounts
  \/ FlushIndex
  \/ FlushIncrease
  \/ FlushUpdateIndex
  \/ FlushUnlock
  \/ BroadcastWait
  \/ BroadcastLock
  \/ \E c \in Conns : BroadcastDeliver(c)
  \/ BroadcastRemove
  \/ BroadcastUnlock
  \/ StatusTick
  \/ StatusOffer
  \/ \E c \in Conns : Connect(c)
  \/ \E c \in Conns : HRegister(c)
  \/ \E c \in Conns : HStatus(c)
  \/ \E c \in Conns : HStatusWrite(c)
  \/ \E c \in SessionWriters, msg \in SessionMessages : csent < MaxSessionMsgs /\ ClientWrite(c, msg)
  \/ \E c \in Conns : PeerLost(c)
  \/ \E c \in Conns : HRecv(c)
  \/ \E c \in Conns : HReadError(c)
  \/ \E c \in Conns : HRemove(c)
  \/ \E c \in Conns : HClose(c)
  \/ \E c \in Conns : HSetPayload(c)
  \/ \E c \in Conns : HSearch(c)
  \/ \E c \in Conns : HAssign(c)
  \/ \E c \in Conns : HSend(c)
  \/ \E c \in Conns : HSendWrite(c)

SpecSession == InitWs /\ [][NextSession]_vars

(***************************************************************************)
(* Properties of the session protocol                                      *)
(***************************************************************************)
\* the handler of c has read a set_search it has not replied to yet
Pending(c) == IF hpc[c] \in {"setPayload", "search", "assign", "send", "wSetLogs"} THEN 1 ELSE 0

\* one set_logs delivered for each set_search read, once the handler is back
\* at its read; never more replies than requests
C9_Replies ==
  \A c \in Conns :
    /\ nSetLogs[c] + Pending(c) <= nSetSearch[c]
    /\ conn[c] = "open" => nSetLogs[c] + Pending(c) = nSetSearch[c]

C9_Step(c) ==
  \* a decodable set_search is taken with its query
  /\ (hpc[c] = "read" /\ hpc'[c] = "setPayload") =>
       /\ Head(inbox[c]).ok /\ Head(inbox[c]).type = "set_search"
       /\ hreq'[c] = Head(inbox[c]).payload
  \* and that query replaces the stored one
  /\ (hpc[c] = "setPayload" /\ hpc'[c] # "setPayload" /\ conn[c] = "open") =>
       client'[c].searchPayload = hreq[c]
  \* the stored query changes in no other way
  /\ client'[c].searchPayload # client[c].searchPayload =>
       hpc[c] = "setPayload" /\ client'[c].searchPayload = hreq[c]
  \* a set_logs reaches c only as the one reply of its own handler
  /\ nSetLogs'[c] # nSetLogs[c] =>
       /\ hpc[c] = "wSetLogs" /\ hpc'[c] = "read"
       /\ nSetLogs'[c] = nSetLogs[c] + 1
       /\ \A d \in Conns \ {c} : nSetLogs'[d] = nSetLogs[d]
  \* the handler of an open client leaves the reply it has built by writing
  \* it: the set_logs is delivered and the handler reads on
  /\ (hpc[c] = "wSetLogs" /\ hpc'[c] # "wSetLogs" /\ conn[c] = "open") =>
       /\ hpc'[c] = "read"
       /\ nSetLogs'[c] = nSetLogs[c] + 1
  \* a message of another type, or one that does not decode, changes nothing
  /\ (/\ hpc[c] = "read" /\ Len(inbox'[c]) < Len(inbox[c])
      /\ ~(Head(inbox[c]).ok /\ Head(inbox[c]).type = "set_search")) =>
       /\ hpc'[c] = "read"
       /\ \A d \in Conns : sent'[d] = <<>>
       /\ UNCHANGED <<wsClients, client, nSetSearch, nSetLogs, received>>
       /\ UNCHANGED <<idCounter, logOrder, logStore, logBuffer, index, blacklist>>

\* C9: every set_search message read from an open client replaces that
\* client's stored query with the message's query and produces exactly one
\* set_logs reply, delivered to that client and to no other; a message of any
\* other type changes nothing and produces no reply.
C9_SetSearchReply ==
  /\ []C9_Replies
  /\ [][\A c \in Conns : C9_Step(c)]_<<hpc, inbox, nSetLogs, nSetSearch>>

(***************************************************************************)
(* SpecFlush: main's read loop, the flush worker and the handlers, with    *)
(* peers that stay connected.                                              *)
(***************************************************************************)
\* the peers of this specification write set_search messages
FlushMessages == {[ok |-> TRUE, type |-> "set_search", payload |-> q] : q \in WsQueries}

\* the set_search messages the peers write in this specification
MaxFlushMsgs == 1

NextFlush ==
  \/ \E t \in Callers, raw \in WsRaws :
       /\ idCounter < MaxFlushAppends
       /\ idCounter = 0 => raw = RawA
       /\ AddLogEntryId(t, raw)
  \/ \E t \in Callers : MainAddLogEntryStore(t)
  \/ \E t \in Callers : MainAddLogEntryWrite(t)
  \/ \E t \in Callers : AddLogEntryBuffer(t)
  \/ FlushDrain
  \/ FlushLock
  \/ \E c \in Conns : FlushNext(c)
  \/ FlushAddLogs
  \/ FlushCounts
  \/ FlushIndex
  \/ FlushIncrease
  \/ FlushUpdateIndex
  \/ FlushUnlock
  \/ \E c \in Conns : Connect(c)
  \/ \E c \in Conns : HRegister(c)
  \/ \E c \in Conns : HStatus(c)
  \/ \E c \in Conns : HStatusWrite(c)
  \/ \E c \in Conns, msg \in FlushMessages : csent < MaxFlushMsgs /\ ClientWrite(c, msg)
  \/ \E c \in Conns : HRecv(c)
  \/ \E c \in Conns : HSetPayload(c)
  \/ \E c \in Conns : HSearch(c)
  \/ \E c \in Conns : HAssign(c)
  \/ \E c \in Conns : HSend(c)
  \/ \E c \in Conns : HSendWrite(c)

SpecFlush == InitWs /\ [][NextFlush]_vars

(***************************************************************************)
(* Properties of the flush                                                 *)
(***************************************************************************)

\* the entries of a batch that match a query, in batch order
MatchingOf(logs, query) == SelectSeq(logs, LAMBDA e : lm_logMatches(e, query, CanonicalOrders(e)))

\* the payloads of the messages of a type among msgs, in order
PayloadsOf(msgs, type) ==
  LET picked == SelectSeq(msgs, LAMBDA m : m.type = type)
  IN [i \in 1..Len(picked) |-> picked[i].payload]

\* the step is the one in which the flush takes client c from its range
IsFlushNext(c) == flush.pc = "range" /\ flush'.pc \in {"add", "counts"} /\ flush'.cur = c

\* the step is the write of the add_logs message of the flush
IsFlushAddLogs == flush.pc = "add" /\ flush'.pc = "counts"

\* the step ends a flush tick
IsFlushUnlock == flush.pc = "range" /\ flush'.pc = "sleep"

C11_Step ==
  \* the client the range takes is a registered one it has not taken in
  \* this tick, and an add_logs is made for it if an entry matches
  /\ \A c \in Conns :
       IsFlushNext(c) =>
         /\ c \in wsClients \ flush.seen
         /\ flush'.pc = "add" <=> MatchingOf(flush.Logs, client[c].searchPayload) # <<>>
         /\ sent'[c] = <<>>
  \* the add_logs written holds the matching entries of the batch
  /\ IsFlushAddLogs =>
       /\ flush.cur \in wsClients
       /\ conn[flush.cur] = "open" =>
            PayloadsOf(sent'[flush.cur], "add_logs") =
              <<MatchingOf(flush.Logs, client[flush.cur].searchPayload)>>
       /\ \A d \in Conns \ {flush.cur} : sent'[d] = <<>>
  \* the tick ends when the range has taken every registered client
  /\ IsFlushUnlock => wsClients \subseteq flush.seen
  \* within a tick the registry, the batch and the stored queries stay
  /\ (flush.pc \notin {"sleep", "lock"} /\ ~IsFlushUnlock) =>
       /\ wsClients' = wsClients
       /\ flush'.Logs = flush.Logs
       /\ \A c \in Conns : client'[c].searchPayload = client[c].searchPayload

\* C11: on a flush tick with a non-empty batch each connected client is sent
\* one add_logs whose payload is the sub-sequence of the batch matching the
\* query it has stored at that tick, in batch order; a client no entry
\* matches is sent no add_logs; no add_logs holds an entry that fails the
\* recipient's stored query.
C11_AddLogsFiltered ==
  /\ [][C11_Step]_vars
  /\ [](\A c \in Conns : \A i \in 1..Len(sent[c]) :
          sent[c][i].type = "add_logs" =>
            /\ sent[c][i].payload # <<>>
            /\ \A k \in 1..Len(sent[c][i].payload) :
                 lm_logMatches(sent[c][i].payload[k], client[c].searchPayload, CanonicalOrders(sent[c][i].payload[k])))

\* a batch of two entries: client 2, with the empty query, has got both;
\* client 1, with a stored term, now gets the one that matches
C11_Witness ==
  /\ flush.Logs = <<RawA, RawB>>
  /\ wsClients = {1, 2}
  /\ client[1].searchPayload = QueryTermB
  /\ client[2].searchPayload = QueryEmpty
  /\ flush.pc = "counts" /\ flush.cur = 1 /\ flush.seen = {1, 2}
  /\ PayloadsOf(sent[1], "add_logs") = <<<<RawB>>>>

\* the index counts a set_logs or an update_index message reports
CountsOf(msg) == IF msg.type = "set_logs" THEN msg.payload.indexCounts ELSE msg.payload

\* the values of a property a query filters on that the query does not allow
Excluded(query, propName, counts) ==
  {propValue \in DOMAIN counts[propName] : ~SlicesContains(query.Filters.m[propName], propValue)}

\* C12: in the index counts a client whose query has been answered is sent,
\* in set_logs and in update_index, every value of a filtered property that is
\* not in the allowed set is reported as 0.
C12_ExcludedValuesZero ==
  \A c \in Conns : \A i \in 1..Len(sent[c]) :
    (sent[c][i].type \in {"set_logs", "update_index"} /\ ~client[c].indexCounts.isNil) =>
      \A propName \in DOMAIN CountsOf(sent[c][i]) \cap DOMAIN client[c].searchPayload.Filters.m :
        \A propValue \in Excluded(client[c].searchPayload, propName, CountsOf(sent[c][i])) :
          CountsOf(sent[c][i])[propName][propValue] = 0

\* msgs hold a message reporting the index counts of the whole index
HasIndexSnapshot(msgs) ==
  \E i \in 1..Len(msgs) :
    /\ msgs[i].type \in {"set_index", "update_index", "set_logs"}
    /\ CountsOf(msgs[i]) = GetIndexCounts(index)

\* msgs hold a message with the last SetLogsLimit stored entries, unfiltered
HasLastLogs(msgs) ==
  \E i \in 1..Len(msgs) :
    /\ msgs[i].type = "set_logs"
    /\ msgs[i].payload.logs = GetLastLogs(logOrder, logStore, SetLogsLimit)

\* the step in which the handler of c writes what it sends on opening
IsOpening(c) == hpc[c] = "wStatus" /\ hpc'[c] = "read" /\ conn[c] = "open"

C13_Step ==
  \A c \in Conns :
    IsOpening(c) =>
      /\ HasIndexSnapshot(sent'[c])
      /\ HasLastLogs(sent'[c])
      /\ CountType(sent'[c], "set_status") = 1

\* C13: when a connection becomes open its handler sends, before it reads an
\* inbound message, the index counts of the whole index, the last
\* min(1000, count) stored entries unfiltered in append order, and one status
\* message.
C13_OpeningMessages == [][C13_Step]_vars

\* the property names the DropIndexKeysCallback calls of a store step gave
DroppedNames(drops) == {drops[i][1] : i \in 1..Len(drops)}

C14_Step(t) ==
  /\ blacklist \subseteq blacklist'
  /\ ~IsStoreStep(t) => blacklist' = blacklist
  /\ IsStoreStep(t) =>
       /\ \A i \in 1..Len(ret'.drops) : Len(ret'.drops[i]) = 1
       /\ \A i, j \in 1..Len(ret'.drops) : ret'.drops[i] = ret'.drops[j] => i = j
       /\ DroppedNames(ret'.drops) = blacklist' \ blacklist
       /\ \A p \in DroppedNames(ret'.drops) :
            /\ p \notin DOMAIN index'
            /\ p \in DOMAIN index
            /\ Cardinality(DOMAIN index[p]) = MaxIndexValues
            /\ \E ord \in FlattenOrders(local[t].raw) : NewValue(local[t].raw, p, ord)
       /\ \A p \in DOMAIN index :
            (/\ Cardinality(DOMAIN index[p]) = MaxIndexValues
             /\ \A ord \in FlattenOrders(local[t].raw) : NewValue(local[t].raw, p, ord))
            => p \in DroppedNames(ret'.drops)

\* C14: DropIndexKeysCallback is called exactly when a property is
\* blacklisted: the insertion that brings a new value to a property with
\* maxIndexValues distinct values calls it once, with that property name
\* alone; a call names a property that was not blacklisted before and is
\* blacklisted for good after, so no property is named twice, and the
\* property named has no bucket left in the index.
C14_DropCallback == [][\A t \in Callers : C14_Step(t)]_vars

\* the third distinct level was stored: one call, naming level; msg, with two
\* values, stays indexed
C14_Witness ==
  /\ appended = <<RawA, RawB, RawC>>
  /\ pc["main"] = "buffer"
  /\ ret.op = "store" /\ ret.drops = <<<<"level">>>>
  /\ blacklist = {"level"}
  /\ "msg" \in DOMAIN index

(***************************************************************************)
(* SpecDelivery: main's read loop, the flush and the broadcast loop, with  *)
(* a connection that opens and a peer that gets lost; no client sends a    *)
(* message.  The first lines read are RawAX and RawBY, the third is any of *)
(* DeliveryRaws.                                                           *)
(***************************************************************************)
MaxDeliveryAppends == 3

DeliveryRaws == {RawAX, RawBY, RawCZ}

MaxDeliveryConns == 1

DeliveryConns == 1..MaxDeliveryConns

NextDelivery ==
  \/ \E t \in Callers, raw \in DeliveryRaws :
       /\ idCounter < MaxDeliveryAppends
       /\ idCounter = 0 => raw = RawAX
       /\ idCounter = 1 => raw = RawBY
       /\ AddLogEntryId(t, raw)
  \/ \E t \in Callers : MainAddLogEntryStore(t)
  \/ \E t \in Callers : MainAddLogEntryWrite(t)
  \/ \E t \in Callers : AddLogEntryBuffer(t)
  \/ FlushDrain
  \/ FlushLock
  \/ \E c \in DeliveryConns : FlushNext(c)
  \/ FlushAddLogs
  \/ FlushCounts
  \/ FlushIndex
  \/ FlushUpdateIndex
  \/ FlushUnlock
  \/ BroadcastWait
  \/ BroadcastLock
  \/ \E c \in DeliveryConns : BroadcastDeliver(c)
  \/ BroadcastRemove
  \/ BroadcastUnlock
  \/ \E c \in DeliveryConns : Connect(c)
  \/ \E c \in DeliveryConns : HRegister(c)
  \/ \E c \in DeliveryConns : HStatus(c)
  \/ \E c \in DeliveryConns : HStatusWrite(c)
  \/ \E c \in DeliveryConns : PeerLost(c)
  \/ \E c \in DeliveryConns : HReadError(c)
  \/ \E c \in DeliveryConns : HRemove(c)
  \/ \E c \in DeliveryConns : HClose(c)

SpecDelivery == InitWs /\ [][NextDelivery]_vars

\* a client is registered and its peer is there
SomeoneConnected == \E c \in wsClients : conn[c] = "open"

\* caller t has blacklisted a property and is about to call the
\* DropIndexKeysCallback with its name
AtCallback(t) == pc[t] = "section" /\ Head(local[t].sec.steps).call # <<>>

\* the step is that call
IsCallbackStep(t) == AtCallback(t) /\ (pc'[t] = "buffer" \/ local'[t].sec # local[t].sec)

C15_Step ==
  \A t \in Callers :
    (IsCallbackStep(t) /\ SomeoneConnected) =>
      /\ bpc' = "deliver"
      /\ bmsg'.type = "drop_index" /\ bmsg'.payload = Head(local[t].sec.steps).call

\* C15: whenever an insertion blacklists a property while a client is
\* connected, the drop_index message naming the property is taken for
\* delivery to the clients by the call of the callback, whatever the
\* broadcast loop is doing.
C15_DropIndexBroadcast == [][C15_Step]_vars

\* the step of caller t evicts an entry
IsEviction(t) == IsStoreStep(t) /\ DOMAIN logStore \ DOMAIN logStore' # {}

\* the update_index message with the counts of the whole index after the step
IndexSnapshot == [type |-> "update_index", payload |-> GetIndexCounts(index')]

C16_Step ==
  \A t \in Callers :
    (IsEviction(t) /\ SomeoneConnected) =>
      \/ bmsg' = IndexSnapshot
      \/ \A c \in wsClients :
           conn[c] = "open" => \E i \in 1..Len(sent'[c]) : sent'[c][i] = IndexSnapshot

\* C16: every eviction inside AddLogEntry notifies the clients with the
\* counts of the whole index taken after the evicted entry left the index:
\* the step hands an update_index with these counts to the broadcast or
\* writes it to every connected client.
C16_EvictionNotifies == [][C16_Step]_vars

\* the step is a write of wsBroadcastLoop to client c
IsBroadcastDeliver(c) == bpc = "range" /\ c \in brange'.seen \ brange.seen

\* the flush worker leaves the client it has written to
IsFlushLeave == flush.pc = "upd" /\ flush'.pc = "range"

C17_Step ==
  \* the flush: when the worker goes on to the next client, one whose write
  \* failed is out of the registry; the tick ends after the last client
  /\ IsFlushLeave =>
       /\ conn'[flush.cur] = "failed" => flush.cur \notin wsClients'
       /\ conn[flush.cur] = "open" =>
            \E i \in 1..Len(sent'[flush.cur]) : sent'[flush.cur][i].type = "update_index"
  /\ IsFlushUnlock => wsClients \subseteq flush.seen
  \* the broadcast loop: after a failed write the client is closed and
  \* removed, and the range goes on to the last client
  /\ \A c \in Conns :
       IsBroadcastDeliver(c) =>
         /\ conn[c] = "open" => (sent'[c] = <<bmsg>> /\ bpc' = "range")
         /\ bpc' = "remove" => brange'.cur = c
  /\ (bpc = "remove" /\ bpc' # "remove") =>
       /\ brange.cur \notin wsClients' /\ conn'[brange.cur] = "closed"
       /\ bpc' = "range"
  /\ (bpc = "range" /\ bpc' = "loop") => wsClients \subseteq brange.seen

\* C17: a client whose write failed, in the delivery of a flushed batch as
\* in a delivery of the broadcast loop, is out of the registry when the
\* delivery goes on to the next client, and the delivery still writes the
\* message to the clients whose peer is there.
C17_FailedWriteRemoves == [][C17_Step]_vars

\* C18: GetLastLogs(n), n >= 0, returns the min(n, count) most recently
\* appended retained entries, oldest first: all the retained entries when
\* there are fewer than n.
C18_GetLastLogs ==
  ret.op = "GetLastLogs" =>
    /\ ret.Logs = MostRecent(DOMAIN logStore, req.n)
    /\ Len(ret.Logs) = Min(req.n, GetLogsCount(logStore))

\* after an eviction, two different entries retained and the newer one asked
\* for
C18_Witness ==
  /\ ret.op = "GetLastLogs"
  /\ appended = <<RawA, RawB, RawC>>
  /\ AllIdle
  /\ req.n = 1
  /\ ret.Logs = <<RawC>>

(***************************************************************************)
(* SpecConcurrent: two goroutines call AddLogEntry on one LogManager.      *)
(***************************************************************************)
MaxConcurrentAppends == 4

ConcurrentCallers == {"main", "other"}

InitConcurrent ==
  /\ idCounter = 0
  /\ logOrder = <<>>
  /\ logStore = EmptyMap
  /\ logBuffer = <<>>
  /\ index = EmptyMap
  /\ blacklist = {}
  /\ pc = [t \in ConcurrentCallers |-> "idle"]
  /\ local = [t \in ConcurrentCallers |-> NoLocal]
  /\ appended = <<>>
  /\ ret = [op |-> "none"]
  /\ InitCoordinator
  /\ req = NoRequest

NextConcurrent ==
  \/ \E t \in ConcurrentCallers, raw \in WsRaws :
       idCounter < MaxConcurrentAppends /\ AddLogEntryId(t, raw)
  \/ \E t \in ConcurrentCallers : AddLogEntryStore(t)
  \/ \E t \in ConcurrentCallers : AddLogEntryBuffer(t)
  \/ GetAndClearBufferedLogs

SpecConcurrent == InitConcurrent /\ [][NextConcurrent]_vars

\* the ids of the calls that have an id and have not returned
InFlightIds == {local[t].id : t \in {u \in ConcurrentCallers : pc[u] # "idle"}}

\* every id the manager or a caller holds
KnownIds == DOMAIN logStore \cup OrderIds \cup AllIndexedIds \cup InFlightIds

C19_Step ==
  /\ idCounter' >= idCounter
  /\ \A id \in KnownIds : id >= 1 /\ id <= idCounter
  /\ \A t, u \in ConcurrentCallers :
       (t # u /\ pc[t] # "idle" /\ pc[u] # "idle") => local[t].id # local[u].id
  /\ \A t \in ConcurrentCallers :
       /\ (pc[t] = "idle" /\ pc'[t] = "store") =>
            /\ local'[t].id > idCounter
            /\ local'[t].id = idCounter'
            /\ local'[t].id \notin KnownIds
       /\ (pc[t] = "buffer" /\ pc'[t] = "idle") =>
            (ret'.op = "AddLogEntry" /\ ret'.id = local[t].id)

\* C19: every id AddLogEntry assigns is larger than every id assigned before,
\* also when two calls overlap: the counter never goes down, every id held
\* by the manager or by a call in progress is at most the counter, each new
\* id is above the counter, and a call returns the id it was assigned.  So
\* the ids are pairwise distinct and the id of an evicted entry is not given
\* again.
C19_IdsIncrease == [][C19_Step]_vars

\* two calls overlap and the later id is stored first; with the fourth id
\* assigned, entries are already evicted
C19_Witness ==
  /\ idCounter = MaxConcurrentAppends
  /\ pc["main"] = "store" /\ local["main"].id = 3
  /\ pc["other"] = "buffer" /\ local["other"].id = 4
  /\ logOrder = <<2, 4>>

(***************************************************************************)
(* SpecOmitted: appends whose values the index leaves out, with searches   *)
(* and filters on these values.                                            *)
(***************************************************************************)
MaxOmittedAppends == 3

OmittedRaws == {RawA, RawB, RawC, RawMisc}

\* a term found only in the over-length value
QueryTermLong == [SearchTerm |-> <<"W", "w">>, Filters |-> NilFilters]
\* the same term, a filter on level and a filter on the over-length value
QueryOmitted ==
  [SearchTerm |-> <<"w", "w">>,
   Filters |-> Filters(("level" :> <<<<"c">>>>) @@ ("msg" :> <<LongValue>>))]
\* a filter on the empty value
QueryEmptyLevel == [SearchTerm |-> <<>>, Filters |-> Filters("level" :> <<<<>>>>)]

OmittedQueries == {QueryTermLong, QueryOmitted, QueryEmptyLevel, QueryLevelAB}

InitOmitted ==
  /\ InitManager
  /\ InitCoordinator
  /\ req \in [query : OmittedQueries, n : {MaxLogs}]

NextOmitted ==
  \/ \E t \in Callers, raw \in OmittedRaws : idCounter < MaxOmittedAppends /\ AddLogEntryId(t, raw)
  \/ \E t \in Callers : MainAddLogEntryStore(t)
  \/ \E t \in Callers : MainAddLogEntryWrite(t)
  \/ \E t \in Callers : AddLogEntryBuffer(t)
  \/ gic.pc = "idle" /\ CallSearchLogs
  \/ CallGetIndexCounts

SpecOmitted == InitOmitted /\ [][NextOmitted]_vars

\* raw is found by query as far as its flat view goes, whatever the index
\* holds
FoundByFlatView(raw, query) ==
  LET flat == flattenMap(raw, CanonOrder(raw))
  IN /\ \A p \in DOMAIN query.Filters.m :
          SlicesContains(query.Filters.m[p], FlatValue(raw, p, CanonOrder(raw)))
     /\ \/ query.SearchTerm = <<>>
        \/ \E p \in DOMAIN flat : Contains(ToLower(flat[p]), ToLower(query.SearchTerm))

\* the retained objects, oldest first
Retained == [i \in 1..Len(logOrder) |-> appended[logOrder[i]]]

\* C20: a value that is empty or longer than maxIndexValueLength is in no
\* bucket of the index and in no GetIndexCounts result; the entry is stored
\* all the same, and SearchLogs finds it by its flat view: by a term only
\* the over-length value contains, by a filter on a blacklisted property and
\* by a filter on the over-length or the empty value.
C20_OmittedValues ==
  /\ \A p \in DOMAIN index : \A v \in DOMAIN index[p] : Indexable(v)
  /\ \A p \in DOMAIN GetIndexCounts(index) : \A v \in DOMAIN GetIndexCounts(index)[p] : Indexable(v)
  /\ ret.op = "GetIndexCounts" =>
       \A p \in DOMAIN ret.counts : \A v \in DOMAIN ret.counts[p] : Indexable(v)
  /\ ret.op = "store" =>
       /\ ret.id \in DOMAIN logStore
       /\ logStore[ret.id].Raw = appended[ret.id]
  /\ ret.op = "SearchLogs" =>
       ret.result.Logs = SelectSeq(Retained, LAMBDA raw : FoundByFlatView(raw, req.query))

\* level is blacklisted by the third entry, whose msg is too long for the
\* index: the entry is found by the term, the filter on level and the filter
\* on msg
C20_Witness ==
  /\ appended = <<RawA, RawB, RawC>>
  /\ ret.op = "SearchLogs"
  /\ req.query = QueryOmitted
  /\ ret.result.Logs = <<RawC>>
  /\ "level" \in blacklist
  /\ 3 \in DOMAIN logStore
  /\ "msg" \in DOMAIN index /\ LongValue \notin DOMAIN index["msg"]

(***************************************************************************)
(* SpecFlatten: flattenMap called again and again on one object.           *)
(***************************************************************************)
\* ["x" 7]
ArrayX7 == [t |-> "l", v |-> <<S(<<"x">>), N(7)>>]

\* what the key "a", the key "a.b" and the key "b" of an input hold: choice
\* 0 is an absent key
FlattenValueA(i) ==
  CASE i = 1 -> S(<<"x">>)
    [] i = 2 -> N(7)
    [] i = 3 -> B(TRUE)
    [] i = 4 -> Z
    [] i = 5 -> ArrayX7
    [] i = 6 -> O("b" :> S(<<"y">>))
    [] i = 7 -> O("b" :> ArrayX7)
    [] OTHER -> O("b" :> O("id" :> N(7)))
FlattenValueAB(i) == IF i = 1 THEN S(<<"x">>) ELSE S(<<"y">>)
FlattenValueB(i) == IF i = 1 THEN S(<<"x">>) ELSE ArrayX7

\* the object a choice stands for
FlattenInput(choice) ==
  [k \in (IF choice.a > 0 THEN {"a"} ELSE {}) \cup (IF choice.ab > 0 THEN {"a.b"} ELSE {})
            \cup (IF choice.b > 0 THEN {"b"} ELSE {}) |->
     IF k = "a" THEN FlattenValueA(choice.a)
     ELSE IF k = "a.b" THEN FlattenValueAB(choice.ab)
     ELSE FlattenValueB(choice.b)]

FlattenChoices == [a : 0..8, ab : 0..2, b : 0..2]

CallFlattenMap ==
  /\ \E ord \in RangeOrders(FlattenInput(req)) :
       ret' = [op |-> "flattenMap", flat |-> flattenMap(FlattenInput(req), ord)]
  /\ UNCHANGED <<idCounter, logOrder, logStore, logBuffer, index, blacklist, pc, local, appended, req, wsVars>>

InitFlatten == InitManager /\ InitCoordinator /\ req \in FlattenChoices

NextFlatten == CallFlattenMap

SpecFlatten == InitFlatten /\ [][NextFlatten]_vars

\* the leaves of data: the joined key of each path to a value that is not an
\* object, with the string form of the value
RECURSIVE PathLeaves(_, _)
PathLeaves(data, prefix) ==
  UNION {IF data[k].t = "o"
         THEN PathLeaves(data[k].v, prefix \o k \o ".")
         ELSE {<<prefix \o k, toString(data[k])>>} : k \in DOMAIN data}

C21_Step ==
  ret'.op = "flattenMap" =>
    /\ DOMAIN ret'.flat = {leaf[1] : leaf \in PathLeaves(FlattenInput(req), "")}
    /\ \A leaf \in PathLeaves(FlattenInput(req), "") : ret'.flat[leaf[1]] = leaf[2]
    /\ ret.op = "flattenMap" => ret'.flat = ret.flat

\* C21: flattenMap maps the joined key of every path to a leaf to the string
\* form of that leaf, an array being one leaf, and nothing else; a second
\* call on the same object returns the same flat view.
C21_FlattenDeterministic == [][C21_Step]_vars

(***************************************************************************)
(* SpecClients: two clients that both write set_search messages, main's    *)
(* read loop and the flush worker.  Each peer writes its queries at any    *)
(* time and in any order with the other's, or writes nothing.              *)
(***************************************************************************)
MaxClientsAppends == 1

\* the lines of this specification, in the order they arrive
ClientsRaws == <<RawA, RawB>>

\* the peer of client 1 writes a query that matches the first line, or
\* nothing; the peer of client 2 writes that query, or one that does not
\* match the first line, or nothing
ClientsQueries(c) == IF c = 1 THEN {QueryLevelAB} ELSE {QueryLevelAB, QueryTermB}

ClientsMessages(c) == {[ok |-> TRUE, type |-> "set_search", payload |-> q] : q \in ClientsQueries(c)}

\* the set_search messages a peer writes in this specification
MaxClientsMsgs == 2

NextClients ==
  \/ \E t \in Callers : idCounter < MaxClientsAppends /\ AddLogEntryId(t, ClientsRaws[idCounter + 1])
  \/ \E t \in Callers : MainAddLogEntryStore(t)
  \/ \E t \in Callers : MainAddLogEntryWrite(t)
  \/ \E t \in Callers : AddLogEntryBuffer(t)
  \/ FlushDrain
  \/ FlushLock
  \/ \E c \in Conns : FlushNext(c)
  \/ FlushAddLogs
  \/ FlushCounts
  \/ FlushIndex
  \/ FlushIncrease
  \/ FlushUpdateIndex
  \/ FlushUnlock
  \/ \E c \in Conns : Connect(c)
  \/ \E c \in Conns : HRegister(c)
  \/ \E c \in Conns : HStatus(c)
  \/ \E c \in Conns : HStatusWrite(c)
  \/ \E c \in Conns : \E msg \in ClientsMessages(c) :
       /\ Len(inbox[c]) + nSetSearch[c] < MaxClientsMsgs
       /\ ClientWrite(c, msg)
  \/ \E c \in Conns : HRecv(c)
  \/ \E c \in Conns : HSetPayload(c)
  \/ \E c \in Conns : HSearch(c)
  \/ \E c \in Conns : HAssign(c)
  \/ \E c \in Conns : HSend(c)
  \/ \E c \in Conns : HSendWrite(c)

SpecClients == InitWs /\ [][NextClients]_vars

\* what the session of connection c consists of
SessionOf(c) == <<c \in wsClients, client[c], conn[c], hpc[c], hreq[c], hres[c], hout[c], inbox[c]>>

\* what the sessions share: the manager and the flush
SharedState == <<logOrder, logStore, logBuffer, index, blacklist, flush, gic>>

\* the step is one of the handler of d or of the peer of d
IsStepOf(d) == hpc'[d] # hpc[d] \/ inbox'[d] # inbox[d] \/ conn'[d] # conn[d]

\* counts has every count of lo, none smaller, and no count hi has not,
\* none greater
CountsBetween(counts, lo, hi) ==
  /\ \A propName \in DOMAIN lo :
       /\ propName \in DOMAIN counts
       /\ \A propValue \in DOMAIN lo[propName] :
            /\ propValue \in DOMAIN counts[propName]
            /\ counts[propName][propValue] >= lo[propName][propValue]
  /\ \A propName \in DOMAIN counts :
       /\ propName \in DOMAIN hi
       /\ \A propValue \in DOMAIN counts[propName] :
            /\ propValue \in DOMAIN hi[propName]
            /\ counts[propName][propValue] <= hi[propName][propValue]

C22_Step ==
  \A c \in Conns :
    /\ (conn[c] = "none" /\ conn'[c] = "open") => client'[c].searchPayload = QueryEmpty
    /\ (conn[c] # "none" /\ client'[c].searchPayload # client[c].searchPayload) =>
         (hpc[c] = "setPayload" /\ hpc'[c] = "search" /\ client'[c].searchPayload = hreq[c])
    /\ \A d \in Conns \ {c} :
         IsStepOf(d) =>
           /\ SessionOf(c)' = SessionOf(c)
           /\ SharedState' = SharedState
           /\ sent'[c] = <<>>
    /\ (hpc[c] = "search" /\ hpc'[c] = "assign") =>
         hres'[c].Logs = MatchingOf(Retained, hreq[c])
    /\ (hpc[c] = "wSetLogs" /\ hpc'[c] # "wSetLogs" /\ conn[c] = "open") =>
         IF hpc'[c] = "read"
         THEN /\ Len(PayloadsOf(sent'[c], "set_logs")) = 1
              /\ PayloadsOf(sent'[c], "set_logs")[1].logs = hres[c].Logs
              /\ CountsBetween(PayloadsOf(sent'[c], "set_logs")[1].indexCounts,
                               hres[c].IndexCounts, client[c].indexCounts.m)
         ELSE sent'[c] = <<>>
    /\ (IsFlushNext(c) /\ flush'.pc = "counts") =>
         MatchingOf(flush.Logs, client[c].searchPayload) = <<>>
    /\ (IsFlushAddLogs /\ flush.cur = c /\ conn[c] = "open") =>
         PayloadsOf(sent'[c], "add_logs") = <<MatchingOf(flush.Logs, client[c].searchPayload)>>

\* C22: the stored query of a client is empty when it connects and changes
\* only when its own handler stores the payload of its own set_search; a
\* step of another client's handler or peer changes neither the client's
\* session nor the state the sessions share, and sends it nothing; the logs
\* of a set_logs and of an add_logs a client is sent are computed from the
\* shared state and the client's own query, and the counts of a set_logs lie
\* between the counts of the client's own search and those counts with the
\* flush worker's increments for the client's own query.  So runs that
\* differ only in another client's set_search messages send a client the
\* same set_logs and add_logs contents.
C22_SessionsIndependent ==
  [][C22_Step]_<<conn, hpc, inbox, flush.pc, flush.cur, nSetLogs, nSetSearch>>

\* both clients have sent a query and got their set_logs; client 2 filters
\* by a term the line of the batch does not have, and the flush, which has
\* passed client 2 without an add_logs, sends client 1 the line its own
\* query matches
C22_Witness ==
  /\ flush.Logs = <<RawA>>
  /\ nSetSearch[1] = 1 /\ client[1].searchPayload = QueryLevelAB
  /\ nSetLogs[1] = 1
  /\ nSetSearch[2] = 1 /\ client[2].searchPayload = QueryTermB
  /\ nSetLogs[2] = 1
  /\ flush.pc = "counts" /\ flush.cur = 1 /\ flush.seen = {1, 2}
  /\ PayloadsOf(sent[1], "add_logs") = <<<<RawA>>>>

\* the step is a call of GetAndClearBufferedLogs
IsDrain == ret'.op = "GetAndClearBufferedLogs" /\ pc' = pc

\* the step is the one in which the call of t puts its entry in the buffer
IsBufferStep(t) == pc[t] = "buffer" /\ pc'[t] = "idle"

C25_Step ==
  /\ IsDrain =>
       /\ ret'.Logs = logBuffer
       /\ ret'.HasLogs = (logBuffer # <<>>)
       /\ logBuffer' = <<>>
  /\ \A t \in ConcurrentCallers :
       IsBufferStep(t) => logBuffer' = Append(logBuffer, local[t].raw)
  /\ logBuffer' # logBuffer =>
       (IsDrain \/ \E t \in ConcurrentCallers : IsBufferStep(t))

\* C25: a drain returns the whole buffer, in buffer order, and leaves the
\* buffer empty, and on an empty buffer it returns HasLogs = false; an
\* AddLogEntry puts its entry at the end of the buffer, and no other step
\* changes the buffer.  So every appended entry is returned by exactly one
\* drain and the batches keep the order of the buffer, under any
\* interleaving of the calls.
C25_DrainAtomic == [][C25_Step]_vars

\* a drain between two overlapping calls: the batch holds the two entries
\* buffered so far, the third call has not put its entry yet
C25_Witness ==
  /\ ret.op = "GetAndClearBufferedLogs" /\ ret.HasLogs
  /\ Len(ret.Logs) = 2
  /\ logBuffer = <<>>
  /\ idCounter = 3
  /\ \E t \in ConcurrentCallers : pc[t] = "buffer"

\* the ingested entries whose flat view has value v for property p
Carriers(p, v) == {id \in 1..Len(appended) : FlatValue(appended[id], p, CanonOrder(appended[id])) = v}

\* C26: in the running index counts of a client every ingested entry counts
\* at most once for each of its (property, value) pairs: no count is larger
\* than the number of ingested entries that carry the pair.
C26_CountedOnce ==
  \A c \in Conns :
    ~client[c].indexCounts.isNil =>
      \A p \in DOMAIN client[c].indexCounts.m :
        \A v \in DOMAIN client[c].indexCounts.m[p] :
          client[c].indexCounts.m[p][v] <= Cardinality(Carriers(p, v))

\* how often the raw object r is in list
Occurrences(r, list) == Cardinality({i \in DOMAIN list : list[i] = r})

\* the list of the peer of c: the entries of its last set_logs, then those
\* of the add_logs written to it since
Received(c) == received[c].snapshot \o received[c].added

\* the list of page p: the array logs, or the logs of the payload object
\* that line 70 has put in its place
PageList(p) == IF page[p].logs.isArray THEN page[p].logs.items ELSE page[p].logs.payload.logs

\* the entries the add_logs messages of msgs carry, in the order written
RECURSIVE AddLogsOf(_)
AddLogsOf(msgs) ==
  IF msgs = <<>> THEN <<>>
  ELSE IF Head(msgs).type = "add_logs" THEN Head(msgs).payload \o AddLogsOf(Tail(msgs))
  ELSE AddLogsOf(Tail(msgs))

\* the list of a page holds a line at most as often as it was ingested
PageAtMostOnce ==
  \A p \in Pages :
    \A i \in DOMAIN PageList(p) :
      Occurrences(PageList(p)[i], PageList(p)) <= Occurrences(PageList(p)[i], appended)

\* C27: delivery is at most once: the list of a peer, replaced by each
\* set_logs and extended by each add_logs, holds no ingested entry twice,
\* and an entry of a set_logs snapshot is not sent again in a later
\* add_logs: a line is in the list, and in the snapshot together with the
\* add_logs written after it, at most as often as it was ingested.
C27_AtMostOnce ==
  /\ \A c \in Conns :
       /\ \A i \in DOMAIN Received(c) :
            Occurrences(Received(c)[i], Received(c)) <= Occurrences(Received(c)[i], appended)
       /\ \A i \in DOMAIN received[c].added :
            Occurrences(received[c].added[i], received[c].snapshot \o received[c].added)
              <= Occurrences(received[c].added[i], appended)
  /\ PageAtMostOnce

(***************************************************************************)
(* The page: app.js in a browser.  A page has one list logs and makes a    *)
(* new WebSocket with every call of connectWS; every socket it has made    *)
(* hands its messages to the same handleWSMessage, and the page closes     *)
(* none of them.                                                           *)
(***************************************************************************)
\* a step of a page leaves the server as it is
PageFrame ==
  /\ sent' = Nothing
  /\ UNCHANGED <<idCounter, logOrder, logStore, logBuffer, index, blacklist, pc, local, appended, req, ret, gic>>
  /\ UNCHANGED <<wsClients, client, conn, hpc, hreq, hres, hout, inbox, csent, bpc, bmsg, brange, tick, flush,
                 nSetSearch, nSetLogs, received, lk>>

\* the timer of line 35 calls connectWS every second until an onopen clears
\* it; line 341 calls it once when the script has loaded
connectWSCalled(p) == ~page[p].loaded \/ page[p].reconnectInterval

\* connectWS, lines 23 and 24: ws is a new WebSocket.  The request for
\* /ws is on its way; the upgrade by wsHandler makes it connection c.
connectWS(p, c) ==
  /\ Running
  /\ connectWSCalled(p)
  /\ socket[c].state = "none" /\ conn[c] = "none"
  /\ \A d \in Conns : d < c => socket[d].state # "none"
  /\ socket' = [socket EXCEPT ![c] = [page |-> p, state |-> "connecting", inflight |-> <<>>]]
  /\ page' = [page EXCEPT ![p].loaded = TRUE, ![p].ws = c]
  /\ PageFrame

\* the same call with a WebSocket that never reaches the server: ws is a
\* socket that will not open (-1)
connectWS_Unreached(p) ==
  /\ Running
  /\ connectWSCalled(p)
  /\ page[p].failing < MaxFailing
  /\ page' = [page EXCEPT ![p].loaded = TRUE, ![p].ws = -1, ![p].failing = @ + 1]
  /\ socket' = socket
  /\ PageFrame

\* lines 32 to 40 on a socket that did not reach the server: onclose starts
\* the reconnect timer unless it runs
onclose_Unreached(p) ==
  /\ Running
  /\ page[p].failing > 0
  /\ page' = [page EXCEPT ![p].failing = @ - 1, ![p].reconnectInterval = TRUE]
  /\ socket' = socket
  /\ PageFrame

\* lines 25 to 31: the upgrade has been answered, onopen clears the timer
onopen(c) ==
  /\ Running
  /\ socket[c].state = "connecting"
  /\ conn[c] # "none"
  /\ socket' = [socket EXCEPT ![c].state = "open"]
  /\ page' = [page EXCEPT ![socket[c].page].reconnectInterval = FALSE]
  /\ PageFrame

\* line 42: onmessage of an open socket hands the next message to
\* handleWSMessage, whichever socket of the page it is
onmessage(c) ==
  /\ Running
  /\ socket[c].state = "open"
  /\ socket[c].inflight # <<>>
  /\ \E logs \in handleWSMessage(page[socket[c].page].logs, Head(socket[c].inflight)) :
       page' = [page EXCEPT ![socket[c].page].logs = logs]
  /\ socket' = [socket EXCEPT ![c].inflight = Tail(@)]
  /\ PageFrame

\* lines 32 to 40: the connection has ended, onclose starts the reconnect
\* timer unless it runs.  What was written before the server closed the
\* connection has been handled; what was on its way when the network went
\* is lost.
onclose(c) ==
  /\ Running
  /\ socket[c].state = "open"
  /\ conn[c] \in {"gone", "failed", "closed"}
  /\ socket[c].inflight = <<>> \/ conn[c] \in {"gone", "failed"}
  /\ socket' = [socket EXCEPT ![c].state = "closed", ![c].inflight = <<>>]
  /\ page' = [page EXCEPT ![socket[c].page].reconnectInterval = TRUE]
  /\ PageFrame

\* sendFilterRequest, lines 131 to 139: the filter goes out on ws as a
\* set_filter message when ws is open
sendFilterRequest(p, query) ==
  /\ page[p].ws \in Conns
  /\ socket[page[p].ws].state = "open"
  /\ ClientWrite(page[p].ws, [ok |-> TRUE, type |-> "set_filter", payload |-> query])

(***************************************************************************)
(* SpecPages: main's read loop, the flush worker and the handlers, with    *)
(* one page.  The first line read is RawA, the second RawB, and a line     *)
(* arrives while the flush worker sleeps over an empty buffer, so each     *)
(* batch holds one line.  The server may be out of reach when the page     *)
(* loads, and the network of the first connection may go.                  *)
(***************************************************************************)
PageRaws == <<RawA, RawB, RawC>>

\* the connections whose network may go
PageLost == {1}

NextPages ==
  \/ \E t \in Callers :
       /\ idCounter < MaxPageAppends
       /\ flush.pc = "sleep" /\ logBuffer = <<>>
       /\ AddLogEntryId(t, PageRaws[idCounter + 1])
  \/ \E t \in Callers : MainAddLogEntryStore(t)
  \/ \E t \in Callers : MainAddLogEntryWrite(t)
  \/ \E t \in Callers : AddLogEntryBuffer(t)
  \/ FlushDrain
  \/ FlushLock
  \/ \E c \in Conns : FlushNext(c)
  \/ FlushAddLogs
  \/ FlushCounts
  \/ FlushIndex
  \/ FlushUpdateIndex
  \/ FlushUnlock
  \/ \E p \in Pages, c \in Conns : connectWS(p, c)
  \/ \E p \in Pages : ~page[p].loaded /\ connectWS_Unreached(p)
  \/ \E p \in Pages : onclose_Unreached(p)
  \/ \E c \in Conns : socket[c].state = "connecting" /\ Connect(c)
  \/ \E c \in Conns : onopen(c)
  \/ \E c \in Conns : onmessage(c)
  \/ \E c \in Conns : onclose(c)
  \/ \E p \in Pages : csent < MaxPageMsgs /\ sendFilterRequest(p, QueryLevelAB)
  \/ \E c \in Conns : HRegister(c)
  \/ \E c \in Conns : HStatus(c)
  \/ \E c \in Conns : HStatusWrite(c)
  \/ \E c \in PageLost : PeerLost(c)
  \/ \E c \in Conns : HRecv(c)
  \/ \E c \in Conns : HReadError(c)
  \/ \E c \in Conns : HRemove(c)
  \/ \E c \in Conns : HClose(c)

SpecPages == InitWs /\ [][NextPages]_vars

\* reached on SpecPages: a first socket did not reach the server and two
\* calls of the timer made two that did; each of them has handed both
\* batches to the page
PageTwoSockets ==
  /\ socket[1].state = "open" /\ socket[2].state = "open"
  /\ socket[1].page = 1 /\ socket[2].page = 1
  /\ PageList(1) = <<RawA, RawA, RawB, RawB>>

\* reached on SpecPages: a socket got the first batch and its connection
\* ended; the socket the timer made got the second one
PageReconnected ==
  /\ socket[1].state = "closed" /\ socket[2].state = "open"
  /\ received[1].added = <<RawA>> /\ received[2].added = <<RawB>>
  /\ PageList(1) = <<RawA, RawB>>

(***************************************************************************)
(* SpecProducer: AddLogEntry next to the flush worker, the broadcast loop, *)
(* the status ticker and a client that connects, is registered and gets    *)
(* lost.  No peer writes a message, so the Client keeps its nil            *)
(* indexCounts and sendBufferedLogs calls GetIndexCounts for it (line      *)
(* 820), without logStoreMu.  Only the caller of AddLogEntry is scheduled  *)
(* fairly; the other goroutines may stay wherever they are.                *)
(***************************************************************************)
MaxProducerAppends == 3
MaxProducerConns == 1
ProducerConns == 1..MaxProducerConns

\* the lines of this specification, in the order they arrive
ProducerRaws == <<RawAX, RawBY, RawCZ>>

ProducerStep == \E t \in Callers : MainAddLogEntryStore(t) \/ MainAddLogEntryWrite(t) \/ AddLogEntryBuffer(t)

NextProducer ==
  \/ \E t \in Callers : idCounter < MaxProducerAppends /\ AddLogEntryId(t, ProducerRaws[idCounter + 1])
  \/ \E t \in Callers : MainAddLogEntryStore(t)
  \/ \E t \in Callers : MainAddLogEntryWrite(t)
  \/ \E t \in Callers : AddLogEntryBuffer(t)
  \/ FlushDrain
  \/ FlushLock
  \/ \E c \in ProducerConns : FlushNext(c)
  \/ FlushAddLogs
  \/ FlushCounts
  \/ FlushIndex
  \/ FlushUpdateIndex
  \/ FlushUnlock
  \/ BroadcastWait
  \/ BroadcastLock
  \/ \E c \in ProducerConns : BroadcastDeliver(c)
  \/ BroadcastRemove
  \/ BroadcastUnlock
  \/ StatusTick
  \/ StatusOffer
  \/ \E c \in ProducerConns : Connect(c)
  \/ \E c \in ProducerConns : HRegister(c)
  \/ \E c \in ProducerConns : PeerLost(c)

\* the caller of AddLogEntry has a step to take: logStoreMu has no other
\* taker in this specification, wsBroadcastMsg has a default case and the
\* channel buffer of line 476 is drained without a lock
ProducerWaits == Running /\ \E t \in Callers : pc[t] \in {"store", "section", "buffer"}

\* the goroutine that calls AddLogEntry is scheduled whenever it can step
\* (weak fairness of ProducerStep, with its enabling condition written out)
SpecProducer ==
  /\ InitWs
  /\ [][NextProducer]_vars
  /\ ([]<>(~ProducerWaits) \/ []<><<ProducerStep>>_<<pc, local>>)

C28_Step ==
  \A t \in Callers :
    IsCallbackStep(t) =>
      IF bpc = "recv"
      THEN bpc' = "deliver" /\ bmsg'.type = "drop_index" /\ bmsg'.payload = Head(local[t].sec.steps).call
      ELSE bpc' = bpc /\ bmsg' = bmsg

\* C28: wsBroadcastMsg never blocks its caller: for as long as the process
\* runs, every step of AddLogEntry under the store lock, its calls of the
\* callback included, can be taken in every state of the clients, of the
\* flush worker and of the broadcast loop; a call made while the loop is not
\* at the channel drops the drop_index message and leaves the loop as it is;
\* and every call of AddLogEntry that has its id completes, unless the
\* runtime ends the process.
C28_ProducerCompletes ==
  /\ [](\A t \in Callers :
         Running =>
           /\ pc[t] = "store" => ENABLED MainAddLogEntryStore(t)
           /\ pc[t] = "section" => ENABLED MainAddLogEntryWrite(t))
  /\ [](ProducerWaits <=> ENABLED <<ProducerStep>>_<<pc, local>>)
  /\ [][C28_Step]_<<pc, local, bpc>>
  /\ \A t \in Callers : (pc[t] = "store") ~> (pc[t] = "idle" \/ ~Running)

\* the third call blacklisted two properties and went on: the loop took the
\* first message and was not back at the channel for the second one, while
\* a client was connected
C28_Witness ==
  /\ ret.op = "store" /\ ret.id = 3 /\ Len(ret.drops) = 2
  /\ pc["main"] = "buffer"
  /\ bpc = "deliver" /\ bmsg.type = "drop_index" /\ bmsg.payload = ret.drops[1]
  /\ SomeoneConnected

(***************************************************************************)
(* SpecLocks: the goroutines of main at the grain of their locks.  A step  *)
(* takes a lock, releases one, or moves a goroutine between two calls; a   *)
(* goroutine at a position such as "storing", "search", "counts" or "add"  *)
(* is inside the call of that name.  What the calls compute is in the      *)
(* actions above and is left as it is here; the registry and the state of  *)
(* the connections are the ones of the actions above.                      *)
(***************************************************************************)
LkData == <<idCounter, logOrder, logStore, logBuffer, index, blacklist, pc, local, appended, req, ret,
            client, hpc, hreq, hres, hout, inbox, csent, sent, bpc, bmsg, brange, tick, flush, nSetSearch,
            nSetLogs, received, page, socket, gic>>

\* wsSend, lines 864 and 866 without the mutex: the write starts at once
wsSendLock_NoMutex(t, c, from, to) ==
  /\ Running
  /\ lk.at[t] = from
  /\ lk' = [lk EXCEPT !.at[t] = to, !.writeMu[c] = t]
  /\ UNCHANGED <<wsClients, conn, LkData>>

\* wsSend, line 864: client.writeMu.Lock(); at position to the goroutine is
\* in conn.WriteMessage
wsSendLock(t, c, from, to) ==
  /\ Running
  /\ lk.at[t] = from
  /\ lk.writeMu[c] = NoThread
  /\ lk' = [lk EXCEPT !.at[t] = to, !.writeMu[c] = t]
  /\ UNCHANGED <<wsClients, conn, LkData>>

\* variant: the write returns under wsClientsMu, as it would if wsSend took
\* the failed client out of the registry before releasing writeMu
wsSendReturn_UnderRegistry(t, c, from, to) ==
  /\ Running
  /\ lk.at[t] = from
  /\ lk.clientsMu \in {NoThread, t}
  /\ lk' = [lk EXCEPT !.at[t] = to, !.writeMu[c] = NoThread,
                      !.cur[t] = IF to = "range" THEN 0 ELSE @]
  /\ UNCHANGED <<wsClients, conn, LkData>>

\* wsSend, lines 865 and 866: WriteMessage returns, writeMu is released; the
\* callers drop the error
wsSendReturn(t, c, from, to) ==
  /\ Running
  /\ lk.at[t] = from
  /\ lk' = [lk EXCEPT !.at[t] = to, !.writeMu[c] = NoThread,
                      !.cur[t] = IF to = "range" THEN 0 ELSE @]
  /\ UNCHANGED <<wsClients, conn, LkData>>

\* AddLogEntry, line 457: idCounterMu.Lock(); main is its only caller
LkIdLock ==
  /\ Running
  /\ lk.at[MainThread] = "idle"
  /\ lk.idCounterMu = NoThread
  /\ lk' = [lk EXCEPT !.at[MainThread] = "id", !.idCounterMu = MainThread]
  /\ UNCHANGED <<wsClients, conn, LkData>>

\* AddLogEntry, lines 458 to 460: the id and idCounterMu.Unlock(); at
\* "flatten" main is in flattenMap (line 461) and holds and awaits no lock
LkIdUnlock ==
  /\ Running
  /\ lk.at[MainThread] = "id"
  /\ lk' = [lk EXCEPT !.at[MainThread] = "flatten", !.idCounterMu = NoThread]
  /\ UNCHANGED <<wsClients, conn, LkData>>

\* AddLogEntry, line 463: flattenMap has returned, logStoreMu.Lock() is
\* called; at "wStore" the Lock call is pending
LkStoreWait ==
  /\ Running
  /\ lk.at[MainThread] = "flatten"
  /\ lk' = [lk EXCEPT !.at[MainThread] = "wStore"]
  /\ UNCHANGED <<wsClients, conn, LkData>>

\* a pending Lock call on a sync.RWMutex keeps new readers out
WriterPending == lk.at[MainThread] = "wStore"

\* AddLogEntry, line 463: logStoreMu.Lock() returns
LkStoreLock ==
  /\ Running
  /\ lk.at[MainThread] = "wStore"
  /\ lk.storeW = NoThread /\ lk.storeR = {}
  /\ lk' = [lk EXCEPT !.at[MainThread] = "storing", !.storeW = MainThread]
  /\ UNCHANGED <<wsClients, conn, LkData>>

\* AddLogEntry, lines 464 to 471: store, addToIndex, enforceMaxLogs, Unlock;
\* the DropIndexKeysCallback inside addToIndex ends in the select of
\* wsBroadcastMsg, which takes no lock and does not block
LkStoreUnlock ==
  /\ Running
  /\ lk.at[MainThread] = "storing"
  /\ lk' = [lk EXCEPT !.at[MainThread] = "wBuffer", !.storeW = NoThread]
  /\ UNCHANGED <<wsClients, conn, LkData>>

\* AddLogEntry, line 473: logBufferMu.Lock()
LkBufferLock ==
  /\ Running
  /\ lk.at[MainThread] = "wBuffer"
  /\ lk.bufferMu = NoThread
  /\ lk' = [lk EXCEPT !.at[MainThread] = "buffering", !.bufferMu = MainThread]
  /\ UNCHANGED <<wsClients, conn, LkData>>

\* AddLogEntry, lines 474 to 477: the append, logBufferMu.Unlock(), return
LkBufferUnlock ==
  /\ Running
  /\ lk.at[MainThread] = "buffering"
  /\ lk' = [lk EXCEPT !.at[MainThread] = "idle", !.bufferMu = NoThread]
  /\ UNCHANGED <<wsClients, conn, LkData>>

\* sendBufferedLogs, line 805, and GetAndClearBufferedLogs, line 481: the
\* sleep is over, logBufferMu.Lock()
LkDrainLock ==
  /\ Running
  /\ lk.at[FlushThread] = "sleep"
  /\ lk.bufferMu = NoThread
  /\ lk' = [lk EXCEPT !.at[FlushThread] = "drain", !.bufferMu = FlushThread]
  /\ UNCHANGED <<wsClients, conn, LkData>>

\* GetAndClearBufferedLogs, lines 482 to 495: the deferred Unlock; without
\* logs sendBufferedLogs sleeps again (line 807)
LkDrainUnlock ==
  /\ Running
  /\ lk.at[FlushThread] = "drain"
  /\ \E hasLogs \in BOOLEAN :
       lk' = [lk EXCEPT !.at[FlushThread] = IF hasLogs THEN "wClients" ELSE "sleep",
                        !.bufferMu = NoThread]
  /\ UNCHANGED <<wsClients, conn, LkData>>

\* statusBroadcastLoop, line 954, getStatusMessage, line 853, GetLogsCount,
\* line 728: a tick, logStoreMu.RLock()
LkTickRLock ==
  /\ Running
  /\ lk.at[StatusThread] = "tick"
  /\ lk.storeW = NoThread /\ ~WriterPending
  /\ lk' = [lk EXCEPT !.at[StatusThread] = "count", !.storeR = @ \cup {StatusThread}]
  /\ UNCHANGED <<wsClients, conn, LkData>>

\* GetLogsCount returns: the deferred RUnlock; wsBroadcastMsg then hands
\* the message over or drops it, without a lock and without blocking
LkTickRUnlock ==
  /\ Running
  /\ lk.at[StatusThread] = "count"
  /\ lk' = [lk EXCEPT !.at[StatusThread] = "tick", !.storeR = @ \ {StatusThread}]
  /\ UNCHANGED <<wsClients, conn, LkData>>

\* sendBufferedLogs, line 810, with a batch to deliver: wsClientsMu.Lock()
LkFlushLock ==
  /\ Running
  /\ lk.at[FlushThread] = "wClients"
  /\ lk.clientsMu = NoThread
  /\ lk' = [lk EXCEPT !.at[FlushThread] = "range", !.clientsMu = FlushThread,
                      !.seen[FlushThread] = {}]
  /\ UNCHANGED <<wsClients, conn, LkData>>

\* sendBufferedLogs, lines 811 to 813: the next client of the range and
\* FilterLogs, with entries to send or without
LkFlushNext(c) ==
  /\ Running
  /\ lk.at[FlushThread] = "range"
  /\ c \in wsClients \ lk.seen[FlushThread]
  /\ \E hasLogs \in BOOLEAN :
       lk' = [lk EXCEPT !.at[FlushThread] = IF hasLogs THEN "wAdd" ELSE "counts",
                        !.cur[FlushThread] = c,
                        !.seen[FlushThread] = @ \cup {c}]
  /\ UNCHANGED <<wsClients, conn, LkData>>

\* sendBufferedLogs, lines 814 to 817: wsSend of add_logs
LkFlushAddLock == wsSendLock(FlushThread, lk.cur[FlushThread], "wAdd", "add")

LkFlushAddReturn == wsSendReturn(FlushThread, lk.cur[FlushThread], "add", "counts")

\* sendBufferedLogs, lines 819 to 823: GetIndexCounts or
\* increaseClientIndexCounts, which read lm.index and lm.blacklist and take
\* no lock; at "counts" the goroutine is inside one of them.  When the
\* handler of the client is in the encoding of its set_logs reply, the map
\* it encodes is the one line 822 has added to.
LkFlushCounts ==
  /\ Running
  /\ lk.at[FlushThread] = "counts"
  /\ lk' = [lk EXCEPT !.at[FlushThread] = "wUpd",
                      !.grew = IF lk.at[HandlerThread(lk.cur[FlushThread])] = "wSetLogs"
                               THEN @ \cup {lk.cur[FlushThread]} ELSE @]
  /\ UNCHANGED <<wsClients, conn, LkData>>

\* sendUpdateIndexMessage: wsSend of update_index
LkFlushUpdLock == wsSendLock(FlushThread, lk.cur[FlushThread], "wUpd", "upd")

LkFlushUpdReturn == wsSendReturn(FlushThread, lk.cur[FlushThread], "upd", "range")

\* sendBufferedLogs, line 826: the range is over, wsClientsMu.Unlock()
LkFlushUnlock ==
  /\ Running
  /\ lk.at[FlushThread] = "range"
  /\ wsClients \ lk.seen[FlushThread] = {}
  /\ lk' = [lk EXCEPT !.at[FlushThread] = "sleep", !.clientsMu = NoThread,
                      !.seen[FlushThread] = {}]
  /\ UNCHANGED <<wsClients, conn, LkData>>

\* wsBroadcastLoop, line 884: a message arrives on wsBroadcast
LkBroadcastRecv ==
  /\ Running
  /\ lk.at[BroadcastThread] = "recv"
  /\ lk' = [lk EXCEPT !.at[BroadcastThread] = "lock"]
  /\ UNCHANGED <<wsClients, conn, LkData>>

\* wsBroadcastLoop, line 885: wsClientsMu.Lock()
LkBroadcastLock ==
  /\ Running
  /\ lk.at[BroadcastThread] = "lock"
  /\ lk.clientsMu = NoThread
  /\ lk' = [lk EXCEPT !.at[BroadcastThread] = "range", !.clientsMu = BroadcastThread,
                      !.seen[BroadcastThread] = {}]
  /\ UNCHANGED <<wsClients, conn, LkData>>

\* wsBroadcastLoop, line 886: the next client of the range
LkBroadcastNext(c) ==
  /\ Running
  /\ lk.at[BroadcastThread] = "range"
  /\ c \in wsClients \ lk.seen[BroadcastThread]
  /\ lk' = [lk EXCEPT !.at[BroadcastThread] = "wMsg",
                      !.cur[BroadcastThread] = c,
                      !.seen[BroadcastThread] = @ \cup {c}]
  /\ UNCHANGED <<wsClients, conn, LkData>>

\* wsBroadcastLoop, line 887: client.writeMu.Lock(); at "msg" the goroutine
\* is in conn.WriteMessage
LkBroadcastWriteLock ==
  /\ Running
  /\ lk.at[BroadcastThread] = "wMsg"
  /\ lk.writeMu[lk.cur[BroadcastThread]] = NoThread
  /\ lk' = [lk EXCEPT !.at[BroadcastThread] = "msg",
                      !.writeMu[lk.cur[BroadcastThread]] = BroadcastThread]
  /\ UNCHANGED <<wsClients, conn, LkData>>

\* wsBroadcastLoop, lines 888 to 890: WriteMessage returns, with an error
\* or not when the connection is not open, and writeMu is released
LkBroadcastWriteReturn ==
  /\ Running
  /\ lk.at[BroadcastThread] = "msg"
  /\ \E err \in WriteErrors(lk.cur[BroadcastThread]) :
       lk' = [lk EXCEPT !.at[BroadcastThread] = IF err THEN "close" ELSE "range",
                        !.writeMu[lk.cur[BroadcastThread]] = NoThread,
                        !.cur[BroadcastThread] = IF err THEN @ ELSE 0]
  /\ UNCHANGED <<wsClients, conn, LkData>>

\* wsBroadcastLoop, lines 891 and 892, after a failed write: the connection
\* is closed and taken out of the registry, with wsClientsMu held and no
\* writeMu
LkBroadcastClose ==
  /\ Running
  /\ lk.at[BroadcastThread] = "close"
  /\ conn' = [conn EXCEPT ![lk.cur[BroadcastThread]] = "closed"]
  /\ wsClients' = wsClients \ {lk.cur[BroadcastThread]}
  /\ lk' = [lk EXCEPT !.at[BroadcastThread] = "range", !.cur[BroadcastThread] = 0]
  /\ UNCHANGED LkData

\* wsBroadcastLoop, line 895: the range is over, wsClientsMu.Unlock()
LkBroadcastUnlock ==
  /\ Running
  /\ lk.at[BroadcastThread] = "range"
  /\ wsClients \ lk.seen[BroadcastThread] = {}
  /\ lk' = [lk EXCEPT !.at[BroadcastThread] = "recv", !.clientsMu = NoThread,
                      !.seen[BroadcastThread] = {}]
  /\ UNCHANGED <<wsClients, conn, LkData>>

\* wsHandler, lines 901 to 907: the upgrade
LkConnect(c) ==
  /\ Running
  /\ lk.at[HandlerThread(c)] = "off"
  /\ conn[c] = "none"
  /\ \A d \in Conns : d < c => conn[d] # "none"
  /\ conn' = [conn EXCEPT ![c] = "open"]
  /\ lk' = [lk EXCEPT !.at[HandlerThread(c)] = "register"]
  /\ UNCHANGED <<wsClients, LkData>>

\* wsHandler, lines 908 to 910: the registration under wsClientsMu
LkRegister(c) ==
  /\ Running
  /\ lk.at[HandlerThread(c)] = "register"
  /\ lk.clientsMu = NoThread
  /\ wsClients' = wsClients \cup {c}
  /\ lk' = [lk EXCEPT !.at[HandlerThread(c)] = "count"]
  /\ UNCHANGED <<conn, LkData>>

\* getStatusMessage, line 853: GetLogsCount under logStoreMu.RLock
LkStatusCount(c) ==
  /\ Running
  /\ lk.at[HandlerThread(c)] = "count"
  /\ lk.storeW = NoThread /\ ~WriterPending
  /\ lk' = [lk EXCEPT !.at[HandlerThread(c)] = "wStatus"]
  /\ UNCHANGED <<wsClients, conn, LkData>>

\* wsHandler, line 913: wsSend of set_status
LkStatusLock(c) == wsSendLock(HandlerThread(c), c, "wStatus", "status")

LkStatusReturn(c) == wsSendReturn(HandlerThread(c), c, "status", "read")

\* wsHandler, lines 916 and 917: ReadMessage returns an error
LkReadError(c) ==
  /\ Running
  /\ lk.at[HandlerThread(c)] = "read"
  /\ conn[c] \in {"gone", "closed"}
  /\ lk' = [lk EXCEPT !.at[HandlerThread(c)] = "remove"]
  /\ UNCHANGED <<wsClients, conn, LkData>>

\* wsHandler, lines 918 to 920 without the lock
LkRemove_NoLock(c) ==
  /\ Running
  /\ lk.at[HandlerThread(c)] = "remove"
  /\ wsClients' = wsClients \ {c}
  /\ lk' = [lk EXCEPT !.at[HandlerThread(c)] = "closing"]
  /\ UNCHANGED <<conn, LkData>>

\* wsHandler, lines 918 to 920: wsClientsMu.Lock(), the delete and
\* wsClientsMu.Unlock(); at "closing" the handler has left the loop (line
\* 921) and its connection is not closed yet
LkRemove(c) ==
  /\ Running
  /\ lk.at[HandlerThread(c)] = "remove"
  /\ lk.clientsMu = NoThread
  /\ wsClients' = wsClients \ {c}
  /\ lk' = [lk EXCEPT !.at[HandlerThread(c)] = "closing"]
  /\ UNCHANGED <<conn, LkData>>

\* wsHandler returns: the deferred conn.Close() of line 906
LkClose(c) ==
  /\ Running
  /\ lk.at[HandlerThread(c)] = "closing"
  /\ conn' = [conn EXCEPT ![c] = "closed"]
  /\ lk' = [lk EXCEPT !.at[HandlerThread(c)] = "stopped"]
  /\ UNCHANGED <<wsClients, LkData>>

\* wsHandler, lines 916 and 928: ReadMessage returns a set_search message
LkReadSetSearch(c) ==
  /\ Running
  /\ lk.at[HandlerThread(c)] = "read"
  /\ conn[c] = "open"
  /\ lk' = [lk EXCEPT !.at[HandlerThread(c)] = "setPayload"]
  /\ UNCHANGED <<wsClients, conn, LkData>>

\* wsHandler, lines 929 to 933: the query is stored under wsClientsMu
LkSetPayload(c) ==
  /\ Running
  /\ lk.at[HandlerThread(c)] = "setPayload"
  /\ lk.clientsMu = NoThread
  /\ lk' = [lk EXCEPT !.at[HandlerThread(c)] = "rlock"]
  /\ UNCHANGED <<wsClients, conn, LkData>>

\* SearchLogs, line 518: logStoreMu.RLock(); at "search" the goroutine is in
\* SearchLogs
LkSearchRLock(c) ==
  /\ Running
  /\ lk.at[HandlerThread(c)] = "rlock"
  /\ lk.storeW = NoThread /\ ~WriterPending
  /\ lk' = [lk EXCEPT !.at[HandlerThread(c)] = "search", !.storeR = @ \cup {HandlerThread(c)}]
  /\ UNCHANGED <<wsClients, conn, LkData>>

\* SearchLogs returns: the deferred RUnlock
LkSearchRUnlock(c) ==
  /\ Running
  /\ lk.at[HandlerThread(c)] = "search"
  /\ lk' = [lk EXCEPT !.at[HandlerThread(c)] = "assign", !.storeR = @ \ {HandlerThread(c)}]
  /\ UNCHANGED <<wsClients, conn, LkData>>

\* wsHandler, line 936: client.indexCounts = searchLogsResult.IndexCounts,
\* with no lock asked for; at "assign" the goroutine is in the assignment,
\* at "wSetLogs" in json.Marshal of the reply (line 860), whose counts are
\* the map just assigned
LkAssign(c) ==
  /\ Running
  /\ lk.at[HandlerThread(c)] = "assign"
  /\ lk' = [lk EXCEPT !.at[HandlerThread(c)] = "wSetLogs", !.grew = @ \ {c}]
  /\ UNCHANGED <<wsClients, conn, LkData>>

\* wsHandler, lines 937 to 943: wsSend of set_logs, when json.Marshal has
\* returned
LkSetLogsLock(c) == wsSendLock(HandlerThread(c), c, "wSetLogs", "setLogs")

\* wsSend, line 860, for the set_logs reply: json.Marshal panics over a map
\* that sendBufferedLogs has added to, or is adding to, while it is
\* encoded.  No writeMu is taken; the deferred conn.Close() runs, net/http
\* recovers the panic and the handler has ended with its client still in
\* wsClients.
LkSetLogsPanic(c) ==
  /\ Running
  /\ lk.at[HandlerThread(c)] = "wSetLogs"
  /\ c \in lk.grew \/ (lk.at[FlushThread] = "counts" /\ lk.cur[FlushThread] = c)
  /\ conn' = [conn EXCEPT ![c] = "closed"]
  /\ lk' = [lk EXCEPT !.at[HandlerThread(c)] = "panicked", !.grew = @ \ {c}]
  /\ UNCHANGED <<wsClients, LkData>>

LkSetLogsReturn(c) == wsSendReturn(HandlerThread(c), c, "setLogs", "read")

\* The runtime ends the process.  sendBufferedLogs is in GetIndexCounts or
\* in increaseClientIndexCounts, which read lm.index and lm.blacklist, while
\* AddLogEntry writes them under logStoreMu; or wsSend encodes the counts of
\* the set_logs reply of the client whose counts sendBufferedLogs increases.
LkFatal ==
  /\ Running
  /\ lk.at[FlushThread] = "counts"
  /\ \/ lk.at[MainThread] = "storing"
     \/ lk.at[HandlerThread(lk.cur[FlushThread])] = "wSetLogs"
  /\ ret' = Fatal
  /\ UNCHANGED <<idCounter, logOrder, logStore, logBuffer, index, blacklist, pc, local, appended, req, wsVars>>

NextLocks ==
  \/ LkIdLock
  \/ LkIdUnlock
  \/ LkStoreWait
  \/ LkStoreLock
  \/ LkStoreUnlock
  \/ LkBufferLock
  \/ LkBufferUnlock
  \/ LkDrainLock
  \/ LkDrainUnlock
  \/ LkTickRLock
  \/ LkTickRUnlock
  \/ LkFlushLock
  \/ \E c \in Conns : LkFlushNext(c)
  \/ LkFlushAddLock
  \/ LkFlushAddReturn
  \/ LkFlushCounts
  \/ LkFlushUpdLock
  \/ LkFlushUpdReturn
  \/ LkFlushUnlock
  \/ LkBroadcastRecv
  \/ LkBroadcastLock
  \/ \E c \in Conns : LkBroadcastNext(c)
  \/ LkBroadcastWriteLock
  \/ LkBroadcastWriteReturn
  \/ LkBroadcastClose
  \/ LkBroadcastUnlock
  \/ \E c \in Conns : LkConnect(c)
  \/ \E c \in Conns : LkRegister(c)
  \/ \E c \in Conns : LkStatusCount(c)
  \/ \E c \in Conns : LkStatusLock(c)
  \/ \E c \in Conns : LkStatusReturn(c)
  \/ \E c \in Conns : LkReadError(c)
  \/ \E c \in Conns : LkRemove(c)
  \/ \E c \in Conns : LkClose(c)
  \/ \E c \in Conns : LkReadSetSearch(c)
  \/ \E c \in Conns : LkSetPayload(c)
  \/ \E c \in Conns : LkSearchRLock(c)
  \/ \E c \in Conns : LkSearchRUnlock(c)
  \/ \E c \in Conns : LkAssign(c)
  \/ \E c \in Conns : LkSetLogsLock(c)
  \/ \E c \in Conns : LkSetLogsPanic(c)
  \/ \E c \in Conns : LkSetLogsReturn(c)
  \/ \E c \in Conns : PeerLost(c)
  \/ LkFatal

SpecLocks == InitWs /\ [][NextLocks]_vars

(***************************************************************************)
(* SpecLocksFair: the same steps, with the scheduling the runtime gives.   *)
(* A goroutine that can run does run, a sync.Mutex or sync.RWMutex that is *)
(* free again and again is granted to the goroutine waiting for it, a      *)
(* sleep and a ticker end, and a connection write returns.  Nothing makes  *)
(* a line arrive on stdin, a browser connect or send a message, or a       *)
(* message arrive on wsBroadcast.                                          *)
(***************************************************************************)
MaxLockConns == 1

LockConns == 1..MaxLockConns

\* the steps AddLogEntry takes once it has begun
MainRun == LkIdUnlock \/ LkStoreWait \/ LkStoreLock \/ LkStoreUnlock \/ LkBufferLock \/ LkBufferUnlock

FlushRun ==
  \/ LkDrainLock
  \/ LkDrainUnlock
  \/ LkFlushLock
  \/ \E c \in LockConns : LkFlushNext(c)
  \/ LkFlushAddLock
  \/ LkFlushAddReturn
  \/ LkFlushCounts
  \/ LkFlushUpdLock
  \/ LkFlushUpdReturn
  \/ LkFlushUnlock

BroadcastRun ==
  \/ LkBroadcastLock
  \/ \E c \in LockConns : LkBroadcastNext(c)
  \/ LkBroadcastWriteLock
  \/ LkBroadcastWriteReturn
  \/ LkBroadcastClose
  \/ LkBroadcastUnlock

StatusRun == LkTickRLock \/ LkTickRUnlock

HandlerRun(c) ==
  \/ LkRegister(c)
  \/ LkStatusCount(c)
  \/ LkStatusLock(c)
  \/ LkStatusReturn(c)
  \/ LkReadError(c)
  \/ LkRemove(c)
  \/ LkClose(c)
  \/ LkSetPayload(c)
  \/ LkSearchRLock(c)
  \/ LkSearchRUnlock(c)
  \/ LkAssign(c)
  \/ LkSetLogsLock(c)
  \/ LkSetLogsPanic(c)
  \/ LkSetLogsReturn(c)

\* the steps of goroutine t that wait for nothing outside the program
Run(t) ==
  CASE t = MainThread -> MainRun
    [] t = FlushThread -> FlushRun
    [] t = BroadcastThread -> BroadcastRun
    [] t = StatusThread -> StatusRun
    [] OTHER -> HandlerRun(t[2])

LockThreads == {MainThread, FlushThread, BroadcastThread, StatusThread} \cup {HandlerThread(c) : c \in LockConns}

NextLocksFair ==
  \/ LkIdLock
  \/ LkBroadcastRecv
  \/ \E c \in LockConns : LkConnect(c)
  \/ \E c \in LockConns : LkReadSetSearch(c)
  \/ \E c \in LockConns : PeerLost(c)
  \/ MainRun
  \/ FlushRun
  \/ BroadcastRun
  \/ StatusRun
  \/ \E c \in LockConns : HandlerRun(c)
  \/ LkFatal

SpecLocksFair ==
  /\ InitWs
  /\ [][NextLocksFair]_vars
  /\ \A t \in LockThreads : SF_lk(Run(t))

\* the connection a goroutine is busy with
Target(t) == IF t[1] = "h" THEN t[2] ELSE lk.cur[t]

\* goroutine t is in conn.WriteMessage on connection c
Writing(t, c) == lk.at[t] \in {"status", "setLogs", "add", "upd", "msg"} /\ Target(t) = c

\* goroutine t is in a call that reads lm.index or lm.blacklist
ReadsIndex(t) == lk.at[t] \in {"search", "counts"}

\* C23: every read of the inverted index and of the blacklist is covered by
\* logStoreMu: no goroutine is inside SearchLogs, GetIndexCounts or
\* increaseClientIndexCounts while AddLogEntry holds the lock exclusively
\* and changes the index.
C23_NoReadDuringMutation ==
  \A t \in Threads : ReadsIndex(t) => lk.storeW = NoThread

\* C24: wsClientsMu is never held by a goroutine that is in a write to a
\* client connection.
C24_NoWriteUnderRegistryLock ==
  \A t \in Threads : \A c \in Conns : Writing(t, c) => lk.clientsMu # t

C29_Removed ==
  \A c \in Conns :
    /\ lk.at[HandlerThread(c)] \in {"closing", "stopped"} =>
         /\ c \notin wsClients
         /\ lk.cur[FlushThread] # c
         /\ lk.cur[BroadcastThread] # c
    /\ lk.at[HandlerThread(c)] = "stopped" => conn[c] = "closed"

C29_Step ==
  \A c \in Conns :
    /\ (lk.at[HandlerThread(c)] = "read" /\ lk'.at[HandlerThread(c)] = "remove") =>
         conn[c] # "open"
    /\ (lk.at[HandlerThread(c)] = "remove" /\ lk'.at[HandlerThread(c)] # "remove") =>
         /\ lk'.at[HandlerThread(c)] = "closing"
         /\ wsClients' = wsClients \ {c}
         /\ client' = client
         /\ conn' = conn
         /\ \A d \in Conns \ {c} : lk'.at[HandlerThread(d)] = lk.at[HandlerThread(d)]
    /\ (lk.at[HandlerThread(c)] = "closing" /\ lk'.at[HandlerThread(c)] # "closing") =>
         /\ lk'.at[HandlerThread(c)] = "stopped"
         /\ wsClients' = wsClients
         /\ client' = client
         /\ \A d \in Conns \ {c} :
              lk'.at[HandlerThread(d)] = lk.at[HandlerThread(d)] /\ conn'[d] = conn[d]
    /\ lk.at[HandlerThread(c)] = "stopped" => lk'.at[HandlerThread(c)] = "stopped"

\* C29: a handler whose read failed takes its client out of the registry
\* and stops, for good; once it has stopped, its connection is in no range
\* of sendBufferedLogs or wsBroadcastLoop, so neither writes to it again;
\* the removal leaves the other handlers, their connections and every
\* Client as they are.
C29_RemovedNoDelivery == []C29_Removed /\ [][C29_Step]_vars

\* the handler of connection 1 has stopped and sendBufferedLogs is writing
\* add_logs to connection 2
C29_Witness ==
  /\ lk.at[HandlerThread(1)] = "stopped"
  /\ lk.at[FlushThread] = "add" /\ lk.cur[FlushThread] = 2
  /\ wsClients = {2}

\* C30: at most one goroutine is in a write on a connection, and it holds
\* the connection's writeMu.
C30_OneWriter ==
  \A c \in Conns :
    /\ Cardinality({t \in Threads : Writing(t, c)}) <= 1
    /\ \A t \in Threads : Writing(t, c) => lk.writeMu[c] = t

\* sendBufferedLogs is writing add_logs to connection 1 while the handler of
\* connection 1 waits with its set_logs reply and wsBroadcastLoop waits for
\* the registry
C30_Witness ==
  /\ lk.at[FlushThread] = "add" /\ lk.cur[FlushThread] = 1
  /\ lk.at[HandlerThread(1)] = "wSetLogs"
  /\ lk.at[BroadcastThread] = "lock"

(***************************************************************************)
(* The index under eviction (removeFromIndex, log_manager.go 659 to 684)   *)
(***************************************************************************)
\* the ids held by the value sets of the index idx
IdsOf(idx) ==
  UNION {UNION {{idx[p][v][j] : j \in 1..Len(idx[p][v])} : v \in DOMAIN idx[p]} : p \in DOMAIN idx}

\* the id enforceMaxLogs evicts in the store step of an entry: the head of
\* the order list once it is longer than maxLogs
Oldest == Append(logOrder, 0)[1]

\* raw carries an indexable value for p in every flat view of it
CarriesIndexable(raw, p) ==
  \A ord \in FlattenOrders(raw) :
    LET flat == flattenMap(raw, ord) IN p \in DOMAIN flat /\ Indexable(flat[p])

C31_Step(t) ==
  /\ IsEviction(t) =>
       \* the id of the evicted entry is in no value set
       /\ Oldest \notin DOMAIN logStore'
       /\ Oldest \notin IdsOf(index')
       \* a bucket that has gone did so by the blacklist only when the new
       \* entry brought the value over the limit
       /\ \A p \in DOMAIN index \ DOMAIN index' :
            p \in blacklist' =>
              /\ Cardinality(DOMAIN index[p]) = MaxIndexValues
              /\ \E ord \in FlattenOrders(local[t].raw) : NewValue(local[t].raw, p, ord)
  /\ IsStoreStep(t) =>
       \* a property that is not blacklisted is indexed (again) by an entry
       \* that carries it
       /\ \A p \in DOMAIN KeyText :
            (CarriesIndexable(local[t].raw, p) /\ p \notin blacklist') =>
               /\ p \in DOMAIN index'
               /\ \E v \in DOMAIN index'[p] :
                    /\ Carries(local[t].raw, p, v)
                    /\ local[t].id \in {index'[p][v][j] : j \in 1..Len(index'[p][v])}
       \* no empty value set, no empty bucket, and the values of a bucket
       \* are values of retained entries: evicted values do not count
       /\ \A p \in DOMAIN index' :
            /\ DOMAIN index'[p] # {}
            /\ \A v \in DOMAIN index'[p] :
                 /\ index'[p][v] # <<>>
                 /\ \E id \in DOMAIN logStore' : Carries(logStore'[id].Raw, p, v)

\* C31: un-indexing an evicted entry takes its id out of each of its value
\* sets, deletes a value key whose set is empty and a property key whose
\* bucket is empty without blacklisting the property; the property is
\* indexed again by a later entry that carries it, and the values of evicted
\* entries do not count toward maxIndexValues.
C31_UnindexEvicted == [][\A t \in Callers : C31_Step(t)]_vars

(***************************************************************************)
(* SpecFilterLogs: LogSearch.logMatches and LogSearch.FilterLogs           *)
(* (part_007, lines 24 to 36) applied to arguments drawn at the start.     *)
(***************************************************************************)
MaxFilterLogs == 3

FilterLogsRaws == {RawA, RawB, RawTwoFields, RawDotted}

FilterLogsTerms == {<<>>, <<"a">>, <<"B", " ", "a">>, <<".">>, <<"y">>}

FilterLogsFilters ==
  {NilFilters, Filters(EmptyMap), Filters("level" :> <<<<"a">>, <<"b">>>>),
   Filters("a.b" :> <<<<"x">>>>), Filters("level" :> <<<<>>>>)}

FilterLogsPayloads ==
  [SearchTerm : FilterLogsTerms, Filters : FilterLogsFilters, Regexp : BOOLEAN]

\* the orders of the two flattenMap calls of one logMatches call on raw
MatchOrdersFor(raw) == [f : FlattenOrders(raw), s : FlattenOrders(raw)]

\* the lists of at most n entries, with the orders of the call on each
RECURSIVE FilterLogsInputs(_)
FilterLogsInputs(n) ==
  IF n = 0 THEN {[logs |-> <<>>, ords |-> <<>>]}
  ELSE LET shorter == FilterLogsInputs(n - 1)
       IN shorter \cup
          UNION {UNION {{[logs |-> Append(in.logs, raw), ords |-> Append(in.ords, o)] :
                           o \in MatchOrdersFor(raw)} : raw \in FilterLogsRaws} :
                   in \in {x \in shorter : Len(x.logs) = n - 1}}

FilterLogsRequests ==
  {r \in {[kind |-> kind, logs |-> in.logs, ords |-> in.ords, payload |-> payload] :
             kind \in {"logMatches", "FilterLogs"}, in \in FilterLogsInputs(MaxFilterLogs),
             payload \in FilterLogsPayloads} :
     r.kind = "logMatches" => Len(r.logs) = 1}

EvalLogMatches ==
  /\ req.kind = "logMatches"
  /\ Len(req.logs) = 1
  /\ ret' = [op |-> "logMatches",
             result |-> logMatches(req.logs[1], req.payload, req.ords[1])]
  /\ UNCHANGED <<idCounter, logOrder, logStore, logBuffer, index, blacklist, pc, local, appended, req, wsVars>>

EvalFilterLogs ==
  /\ req.kind = "FilterLogs"
  /\ ret' = [op |-> "FilterLogs", Logs |-> FilterLogs(req.logs, req.payload, req.ords)]
  /\ UNCHANGED <<idCounter, logOrder, logStore, logBuffer, index, blacklist, pc, local, appended, req, wsVars>>

InitFilterLogs == InitManager /\ InitCoordinator /\ req \in FilterLogsRequests

NextFilterLogs == EvalLogMatches \/ EvalFilterLogs

SpecFilterLogs == InitFilterLogs /\ [][NextFilterLogs]_vars

\* the positions of the list whose entry satisfies both the filters and the
\* search of the payload
MatchingPositions ==
  {i \in 1..Len(req.logs) :
     /\ logMatchesFilter(req.logs[i], req.payload.Filters, req.ords[i].f)
     /\ logMatchesSearch(req.logs[i], req.payload.SearchTerm, req.payload.Regexp, req.ords[i].s)}

\* the j-th smallest element of the set of positions ps
NthOf(ps, j) == CHOOSE i \in ps : Cardinality({k \in ps : k <= i}) = j

C32_Result ==
  /\ ret.op = "logMatches" => ret.result = (1 \in MatchingPositions)
  /\ ret.op = "FilterLogs" =>
       /\ Len(ret.Logs) = Cardinality(MatchingPositions)
       /\ \A j \in 1..Len(ret.Logs) : ret.Logs[j] = req.logs[NthOf(MatchingPositions, j)]

\* C32: logMatches is logMatchesFilter and logMatchesSearch, and FilterLogs
\* returns the entries for which logMatches holds, one for each matching
\* position of the input, in the order of the input; the input is left as
\* it was.
C32_FilterLogs == []C32_Result /\ [][req' = req]_vars

\* the second of three entries is left out; the first and the third are the
\* same object and both are returned
C32_Witness ==
  /\ ret.op = "FilterLogs"
  /\ req.logs = <<RawB, RawA, RawB>>
  /\ req.payload.SearchTerm = <<"B", " ", "a">>
  /\ req.payload.Filters = Filters("level" :> <<<<"a">>, <<"b">>>>)
  /\ ret.Logs = <<RawB, RawB>>

(***************************************************************************)
(* SpecReaders: the LogManager under main's read loop and the drain, with  *)
(* a caller of each read operation.                                        *)
(***************************************************************************)
MaxReaderAppends == 3

ReaderRaws == {RawA, RawB}

ReaderRequests == {[query |-> QueryLevelAB, n |-> 1], [query |-> QueryTermB, n |-> MaxLogs]}

\* sendBufferedLogs, line 812: FilterLogs on the batch the drain returned
CallFilterLogs ==
  /\ Running
  /\ ret.op = "GetAndClearBufferedLogs"
  /\ ret.HasLogs
  /\ \E ords \in OrderSeqs(ret.Logs) :
       ret' = [op |-> "FilterLogs", Logs |-> lm_FilterLogs(ret.Logs, req.query, ords)]
  /\ UNCHANGED <<idCounter, logOrder, logStore, logBuffer, index, blacklist, pc, local, appended, req, wsVars>>

\* a goroutine that calls GetIndexCounts twice, one call after the other
CallGetIndexCountsAgain ==
  /\ Running
  /\ gic.by \in {"none", "again"}
  /\ IF gic.pc = "idle"
     THEN /\ gic' = GicBegin("again", 1)
          /\ UNCHANGED ret
     ELSE IF gic.pc = "between"
     THEN /\ gic' = GicBegin("again", 2)
          /\ UNCHANGED ret
     ELSE \E counts \in GicResults :
            IF gic.stage = 1
            THEN /\ gic' = [gic EXCEPT !.pc = "between", !.calls = {}, !.first = counts]
                 /\ UNCHANGED ret
            ELSE /\ ret' = [op |-> "GetIndexCountsAgain", counts |-> counts,
                            same |-> counts = gic.first, quiet |-> gic.quiet]
                 /\ gic' = GicIdle
  /\ UNCHANGED <<idCounter, logOrder, logStore, logBuffer, index, blacklist, pc, local, appended, req, coVars>>

InitReaders == InitManager /\ InitCoordinator /\ req \in ReaderRequests

\* one goroutine makes the reads, one call after the other, while the last
\* entries are appended and after
ReaderReady == gic.pc = "idle" /\ idCounter >= MaxReaderAppends - 1

NextReaders ==
  \/ \E t \in Callers, raw \in ReaderRaws : idCounter < MaxReaderAppends /\ AddLogEntryId(t, raw)
  \/ \E t \in Callers : MainAddLogEntryStore(t)
  \/ \E t \in Callers : MainAddLogEntryWrite(t)
  \/ \E t \in Callers : AddLogEntryBuffer(t)
  \/ ReaderReady /\ GetAndClearBufferedLogs
  \/ ReaderReady /\ CallFilterLogs
  \/ ReaderReady /\ CallGetLastLogs
  \/ ReaderReady /\ CallSearchLogs
  \/ CallGetIndexCounts
  \/ CallGetIndexCountsAgain
  \/ ReaderReady /\ CallGetLogsCount

SpecReaders == InitReaders /\ [][NextReaders]_vars

ReadOps == {"GetIndexCounts", "GetIndexCountsAgain", "GetLastLogs", "GetLogsCount", "SearchLogs", "FilterLogs"}

\* the step is the return of a read operation
IsRead == ret' # ret /\ ret'.op \in ReadOps

C33_Step ==
  IsRead =>
    /\ UNCHANGED <<logStore, logOrder, index, blacklist, logBuffer>>
    /\ (ret'.op = "GetIndexCountsAgain" /\ ret'.quiet) => ret'.same

\* C33: GetIndexCounts, GetLastLogs, GetLogsCount, SearchLogs and FilterLogs
\* leave the store, the order list, the index, the blacklist and the buffer
\* as they are, and a second GetIndexCounts call with no append in between
\* returns what the first returned.
C33_ReadsChangeNothing == [][C33_Step]_vars

\* a second GetIndexCounts call on an index that an eviction has changed,
\* while an entry is waiting in the buffer
C33_Witness ==
  /\ ret.op = "GetIndexCountsAgain"
  /\ ret.counts # EmptyMap
  /\ idCounter > MaxLogs
  /\ Len(logBuffer) > 0

(***************************************************************************)
(* The order of the locks                                                  *)
(***************************************************************************)
\* the locks goroutine t holds
Held(t) ==
  {l \in {"idCounterMu", "logStoreMu", "logBufferMu", "wsClientsMu", "writeMu"} :
     \/ l = "idCounterMu" /\ lk.idCounterMu = t
     \/ l = "logStoreMu" /\ (lk.storeW = t \/ t \in lk.storeR)
     \/ l = "logBufferMu" /\ lk.bufferMu = t
     \/ l = "wsClientsMu" /\ lk.clientsMu = t
     \/ l = "writeMu" /\ \E c \in Conns : lk.writeMu[c] = t}

\* the lock goroutine t has asked for and not got yet
Wanted(t) ==
  CASE lk.at[t] \in {"wStore", "rlock", "count"} /\ t # StatusThread -> {"logStoreMu"}
    [] lk.at[t] = "wBuffer" -> {"logBufferMu"}
    [] lk.at[t] \in {"wClients", "lock", "register", "setPayload", "remove"} -> {"wsClientsMu"}
    [] lk.at[t] \in {"wAdd", "wUpd", "wMsg", "wStatus", "wSetLogs"} -> {"writeMu"}
    [] OTHER -> {}

\* an order of the locks
LockRank(l) ==
  CASE l = "idCounterMu" -> 1
    [] l = "logStoreMu" -> 2
    [] l = "logBufferMu" -> 3
    [] l = "wsClientsMu" -> 4
    [] OTHER -> 5

\* every goroutine asks only for a lock that comes after each lock it holds
C34_Ordered ==
  \A t \in Threads : \A h \in Held(t) : \A w \in Wanted(t) : LockRank(h) < LockRank(w)

\* goroutine t waits for something outside the program, or does not exist
Resting(t) == lk.at[t] \in {"idle", "sleep", "recv", "tick", "off", "read", "stopped", "panicked"}

\* goroutine t is inside the program and cannot take a step
Blocked(t) == ~Resting(t) /\ ~ENABLED Run(t)

\* in the running process, whenever a goroutine is blocked, another one is
\* running
C34_SomeoneRuns ==
  (Running /\ \E t \in LockThreads : Blocked(t)) =>
    \E u \in LockThreads : ~Resting(u) /\ ~Blocked(u)

\* C34: the locks are acquired in one order, so no set of goroutines wait
\* for each other; with connection writes that return, every goroutine
\* that asks for a lock gets it and comes back to where it waits for its
\* next input, for as long as the process runs.
C34_NoDeadlock ==
  /\ []C34_Ordered
  /\ []C34_SomeoneRuns
  /\ \A t \in LockThreads : (~Resting(t)) ~> (Resting(t) \/ ~Running)

\* sendBufferedLogs holds wsClientsMu and waits for the writeMu of the
\* connection its handler is writing set_logs to, wsBroadcastLoop waits for
\* wsClientsMu and AddLogEntry waits for logBufferMu, which is free
C34_Witness ==
  /\ lk.at[FlushThread] = "wAdd"
  /\ lk.at[HandlerThread(1)] = "setLogs"
  /\ lk.at[BroadcastThread] = "lock"
  /\ lk.at[MainThread] = "wBuffer"

(***************************************************************************)
(* SpecFlushFair: SpecFlush with one connection whose writes succeed, and  *)
(* a flush worker that is scheduled: it sleeps 100 ms between two ticks and*)
(* the locks it takes are released by their holders.                       *)
(***************************************************************************)
MaxFairConns == 1

FairConns == 1..MaxFairConns

NextFlushFair ==
  \/ \E t \in Callers, raw \in WsRaws : idCounter < MaxFlushAppends /\ AddLogEntryId(t, raw)
  \/ \E t \in Callers : MainAddLogEntryStore(t)
  \/ \E t \in Callers : MainAddLogEntryWrite(t)
  \/ \E t \in Callers : AddLogEntryBuffer(t)
  \/ FlushDrain
  \/ FlushLock
  \/ \E c \in FairConns : FlushNext(c)
  \/ FlushAddLogs
  \/ FlushCounts
  \/ FlushIndex
  \/ FlushIncrease
  \/ FlushUpdateIndex
  \/ FlushUnlock
  \/ \E c \in FairConns : Connect(c)
  \/ \E c \in FairConns : HRegister(c)
  \/ \E c \in FairConns : HStatus(c)
  \/ \E c \in FairConns : HStatusWrite(c)
  \/ \E c \in FairConns, msg \in ClientMessages : ClientWrite(c, msg)
  \/ \E c \in FairConns : HRecv(c)
  \/ \E c \in FairConns : HSetPayload(c)
  \/ \E c \in FairConns : HSearch(c)
  \/ \E c \in FairConns : HAssign(c)
  \/ \E c \in FairConns : HSend(c)
  \/ \E c \in FairConns : HSendWrite(c)

\* the steps of sendBufferedLogs after the range has taken a client
FlushStep ==
  \/ FlushDrain
  \/ FlushLock
  \/ FlushAddLogs
  \/ FlushCounts
  \/ FlushIndex
  \/ FlushIncrease
  \/ FlushUpdateIndex
  \/ FlushUnlock

\* the range at line 811 has a registered client left to take: FlushNext is
\* enabled for it, whatever the batch and the client's query are
FlushAtClient == Running /\ flush.pc = "range" /\ (wsClients \cap FairConns) \ flush.seen # {}

\* the step of FlushNext: the range takes a client and filters the batch
FlushTakes == flush.pc = "range" /\ flush'.pc \in {"add", "counts"}

\* the flush worker is scheduled: it takes its next step whenever it can.
\* The last conjunct is weak fairness of FlushNext with its enabling
\* condition written out.
SpecFlushFair ==
  /\ InitWs /\ [][NextFlushFair]_vars
  /\ WF_flush(FlushStep)
  /\ ([]<>(~FlushAtClient) \/ []<><<FlushTakes>>_flush)

HasAddLogs(msgs) == \E i \in 1..Len(msgs) : msgs[i].type = "add_logs"

\* two lists of messages are the same: the types first, then the payloads
SameMessages(a, b) ==
  /\ Len(a) = Len(b)
  /\ \A i \in 1..Len(a) : a[i].type = b[i].type /\ a[i].payload = b[i].payload

C35_Step ==
  \* the buffer grows at its end, or is drained whole by the idle worker
  /\ logBuffer' # logBuffer =>
       \/ Len(logBuffer') = Len(logBuffer) + 1 /\ SubSeq(logBuffer', 1, Len(logBuffer)) = logBuffer
       \/ /\ flush.pc = "sleep" /\ flush'.pc = "lock"
          /\ flush'.Logs = logBuffer /\ logBuffer' = <<>>
  \* a batch is taken from the buffer and given up only at the end of its
  \* tick, when the range has taken every registered client
  /\ flush'.Logs # flush.Logs =>
       \/ flush.pc = "sleep" /\ flush'.Logs = logBuffer
       \/ /\ flush.pc = "range" /\ flush'.pc = "sleep" /\ flush'.Logs = <<>>
          /\ wsClients \subseteq flush.seen
  \* the range passes a client without an add_logs only if no entry of the
  \* batch matches its query
  /\ (flush.pc = "range" /\ flush'.pc = "counts") =>
       MatchingOf(flush.Logs, client[flush'.cur].searchPayload) = <<>>
  \* the add_logs written to a client holds the entries of the batch that
  \* match its query, in batch order; the one write that does not succeed
  \* is the write to the connection a handler closed when the encoding of
  \* its reply panicked, and it sends nothing
  /\ (flush.pc = "add" /\ flush'.pc # "add") =>
       /\ conn[flush.cur] = "open" \/ hpc[flush.cur] = "panicked"
       /\ conn[flush.cur] = "open" =>
            AddLogsOf(sent'[flush.cur]) = MatchingOf(flush.Logs, client[flush.cur].searchPayload)
       /\ conn[flush.cur] # "open" => sent'[flush.cur] = <<>>
  \* and nothing but the flush writes an add_logs
  /\ (\E c \in Conns : HasAddLogs(sent'[c]) /\ ~SameMessages(sent'[c], sent[c])) =>
       flush.pc = "add"

\* C35: with a scheduled flush worker and writes that succeed, for as long
\* as the process runs, a buffered entry is eventually drained and a drained
\* batch eventually delivered; the buffer keeps the order of the appends, a
\* drain takes it whole, and the delivery sends every registered client the
\* entries matching the query it holds then, in one add_logs and in buffer
\* order, so that the entries reach a client in the order they were buffered
\* within a batch and across ticks
C35_FlushDelivers ==
  /\ (logBuffer # <<>>) ~> (flush.pc = "lock" \/ ~Running)
  /\ (flush.pc = "lock") ~> (flush.pc = "sleep" \/ ~Running)
  /\ [][C35_Step]_vars

\* a flush has sent a client two different entries in one add_logs
C35_Witness ==
  /\ flush.pc = "counts"
  /\ \E c \in wsClients : \E i \in 1..Len(sent[c]) :
       /\ sent[c][i].type = "add_logs"
       /\ Len(sent[c][i].payload) = 2
       /\ sent[c][i].payload[1] # sent[c][i].payload[2]

(***************************************************************************)
(* Appends by several goroutines and the order of the retained entries     *)
(***************************************************************************)
\* the ids of the calls that hold an id and have not stored their entry
NotYetStored == {local[t].id : t \in {u \in DOMAIN pc : pc[u] = "store"}}

\* the ids of the entries that were stored and are evicted
EvictedIds == (1..idCounter) \ (DOMAIN logStore \cup NotYetStored)

IsAscending(ids) == \A i, j \in 1..Len(ids) : i < j => ids[i] < ids[j]

\* C36: with concurrent AddLogEntry calls the order list is sorted by
\* ascending id, so that the entry an eviction removes is the retained one
\* with the smallest id: no retained entry has a smaller id than an evicted one
C36_AppendsInIdOrder ==
  /\ IsAscending(logOrder)
  /\ \A id \in DOMAIN logStore : \A old \in EvictedIds : old < id

(***************************************************************************)
(* The session state of a client and wsClientsMu                           *)
(***************************************************************************)
\* goroutine t is in the assignment of the snapshot of c (wsHandler, 936)
AssignsSnapshot(t, c) == t = HandlerThread(c) /\ lk.at[t] = "assign"

\* goroutine t is reading and incrementing the snapshot of c
\* (sendBufferedLogs, lines 819 to 822, increaseClientIndexCounts)
CountsSnapshot(t, c) == t = FlushThread /\ lk.at[t] = "counts" /\ lk.cur[t] = c

\* C37: a goroutine that accesses a client's stored query or index-count
\* snapshot holds wsClientsMu, and the handler's assignment of the snapshot
\* is never in progress while the flush worker reads and increments it
C37_SessionUnderRegistryLock ==
  /\ \A t \in Threads : \A c \in Conns :
       (AssignsSnapshot(t, c) \/ CountsSnapshot(t, c)) => lk.clientsMu = t
  /\ \A c \in Conns :
       ~(AssignsSnapshot(HandlerThread(c), c) /\ CountsSnapshot(FlushThread, c))

(***************************************************************************)
(* Filters on a property the entry does not have                           *)
(***************************************************************************)
\* the flat view the evaluated request was matched on
ReqFlat == flattenMap(req.raw, req.ord)

\* the value the entry is taken to have for property p
TakenValue(p) == IF p \in DOMAIN ReqFlat THEN ReqFlat[p] ELSE <<>>

\* the allowed values of property p in the filter of the request
Allowed(p) == {req.filter.m[p][i] : i \in 1..Len(req.filter.m[p])}

\* C38: an entry without a filtered property counts as having the empty
\* string for it.  If the entry matches, the empty string is among the
\* allowed values of every filtered property it lacks; a lacking property
\* whose allowed values include the empty string constrains nothing, the
\* result is that of the filter without it; and an entry does not match a
\* filter in which, for some property, none of the allowed values is the
\* value the entry has for it.  LogManager.logMatchesFilter gives the same
\* result as LogSearch.logMatchesFilter.
C38_AbsentIsEmpty ==
  (ret.op = "logMatchesFilter" /\ ~req.filter.isNil) =>
    /\ \A p \in DOMAIN req.filter.m \ DOMAIN ReqFlat :
         /\ ret.result => <<>> \in Allowed(p)
         /\ <<>> \in Allowed(p) =>
              ret.result = logMatchesFilter(req.raw, Filters(MapDelete(req.filter.m, p)), req.ord)
    /\ (\E p \in DOMAIN req.filter.m : TakenValue(p) \notin Allowed(p)) => ~ret.result
    /\ ret.result = lm_logMatchesFilter(req.raw, req.filter, req.ord)

\* an entry with a level and no msg matches a filter on both, where the
\* empty string is allowed for msg
C38_Witness ==
  /\ ret.op = "logMatchesFilter"
  /\ ~req.filter.isNil
  /\ "level" \in DOMAIN ReqFlat /\ "msg" \notin DOMAIN ReqFlat
  /\ {"level", "msg"} \subseteq DOMAIN req.filter.m
  /\ <<>> \in Allowed("msg")
  /\ ReqFlat["level"] # <<>>
  /\ ret.result

(***************************************************************************)
(* SpecEvictedFlush: more appends than maxLogs between two drains, with a  *)
(* client that has sent a query and holds a snapshot of the counts.        *)
(***************************************************************************)
MaxEvictedAppends == 3

\* what the client sends: a query every entry matches, or one some match
EvictedMessages ==
  {[ok |-> TRUE, type |-> "set_search", payload |-> q] : q \in {QueryLevelAB, QueryTermB}}

NextEvictedFlush ==
  \/ \E t \in Callers, raw \in WsRaws :
       /\ idCounter < MaxEvictedAppends
       /\ idCounter = 0 => raw = RawA
       /\ idCounter > 0 => raw = RawB
       /\ AddLogEntryId(t, raw)
  \/ \E t \in Callers : MainAddLogEntryStore(t)
  \/ \E t \in Callers : MainAddLogEntryWrite(t)
  \/ \E t \in Callers : AddLogEntryBuffer(t)
  \/ FlushDrain
  \/ FlushLock
  \/ \E c \in FairConns : FlushNext(c)
  \/ FlushAddLogs
  \/ FlushCounts
  \/ FlushIndex
  \/ FlushIncrease
  \/ FlushUpdateIndex
  \/ FlushUnlock
  \/ \E c \in FairConns : Connect(c)
  \/ \E c \in FairConns : HRegister(c)
  \/ \E c \in FairConns : HStatus(c)
  \/ \E c \in FairConns : HStatusWrite(c)
  \/ \E c \in FairConns, msg \in EvictedMessages : ClientWrite(c, msg)
  \/ \E c \in FairConns : HRecv(c)
  \/ \E c \in FairConns : HSetPayload(c)
  \/ \E c \in FairConns : HSearch(c)
  \/ \E c \in FairConns : HAssign(c)
  \/ \E c \in FairConns : HSend(c)
  \/ \E c \in FairConns : HSendWrite(c)

SpecEvictedFlush == InitWs /\ [][NextEvictedFlush]_vars

\* the entries the store retains
StoredRaws == {logStore[id].Raw : id \in DOMAIN logStore}

\* the count a snapshot holds for value v of property p
CountIn(counts, p, v) ==
  IF p \in DOMAIN counts THEN IF v \in DOMAIN counts[p] THEN counts[p][v] ELSE 0 ELSE 0

\* how many entries of a batch carry the countable value v for property p
CountableIn(logs, p, v) ==
  Cardinality({i \in 1..Len(logs) :
                 LET flat == flattenMap(logs[i], CanonOrder(logs[i]))
                 IN p \in DOMAIN flat /\ flat[p] = v /\ ~omitIndexValue(blacklist, p, v)})

\* the pairs of property and value a batch or a snapshot knows
PairsOf(logs, counts) ==
  UNION {{<<p, flattenMap(logs[i], CanonOrder(logs[i]))[p]>> : p \in DOMAIN flattenMap(logs[i], CanonOrder(logs[i]))} :
           i \in 1..Len(logs)}
    \cup UNION {{<<p, v>> : v \in DOMAIN counts[p]} : p \in DOMAIN counts}

C39_Step ==
  \* the store step, eviction included, leaves the buffer and the batch alone
  /\ logStore' # logStore => (logBuffer' = logBuffer /\ flush' = flush)
  \* the buffer step appends whatever the length of the buffer
  /\ \A t \in Callers :
       (pc[t] = "buffer" /\ pc'[t] = "idle") => logBuffer' = Append(logBuffer, local[t].raw)
  \* and only a drain takes entries out, all of them, into the batch
  /\ (\E i \in 1..Len(logBuffer) : i > Len(logBuffer') \/ logBuffer'[i] # logBuffer[i]) =>
       (flush.pc = "sleep" /\ flush'.Logs = logBuffer /\ logBuffer' = <<>>)
  \* the add_logs written to a client holds every entry of the batch that
  \* matches its query, stored or evicted
  /\ (IsFlushAddLogs /\ conn[flush.cur] = "open") =>
       \A i \in 1..Len(flush.Logs) :
         lm_logMatches(flush.Logs[i], client[flush.cur].searchPayload, CanonicalOrders(flush.Logs[i])) =>
           \E k \in 1..Len(sent'[flush.cur]) :
             /\ sent'[flush.cur][k].type = "add_logs"
             /\ \E j \in 1..Len(sent'[flush.cur][k].payload) :
                  sent'[flush.cur][k].payload[j] = flush.Logs[i]
  \* increaseClientIndexCounts counts a countable value of a batch entry into
  \* the snapshot of the client, stored or evicted
  /\ (flush.pc = "increase" /\ flush'.pc = "increase" /\ flush'.k = flush.k /\ Running') =>
       \A propName \in flush'.keys \ flush.keys :
         (/\ FlushAttached
          /\ ~omitIndexValue(blacklist, propName, flush.flat[propName])) =>
           CountIn(client'[flush.cur].indexCounts.m, propName, flush.flat[propName]) =
             CountIn(client[flush.cur].indexCounts.m, propName, flush.flat[propName]) + 1
  \* and the update_index of line 823, for a client that matches an entry of
  \* the batch that the store has evicted, holds the counts of the batch
  /\ (/\ flush.pc = "increase" /\ flush'.pc = "upd"
      /\ \E i \in 1..Len(flush.Logs) :
           /\ flush.Logs[i] \notin StoredRaws
           /\ lm_logMatches(flush.Logs[i], client[flush.cur].searchPayload, CanonicalOrders(flush.Logs[i]))) =>
       /\ flush'.msg.type = "update_index"
       /\ \A pv \in PairsOf(flush.Logs, flush'.msg.payload) :
            CountIn(flush'.msg.payload, pv[1], pv[2]) >= CountableIn(flush.Logs, pv[1], pv[2])

\* C39: the buffer does not follow the store.  Storing an entry, and the
\* eviction it triggers, change neither the buffer nor a drained batch; an
\* append puts its entry at the end of the buffer however long the buffer
\* is; entries leave the buffer only by a drain, which takes all of them;
\* and the flush sends every entry of the batch that matches a client's
\* query to that client in add_logs, whether the store still has the entry
\* or not, and for a client that holds a snapshot and matches an entry of the
\* batch that the store has evicted it adds every countable value of every
\* entry of the batch to the snapshot and sends the result as update_index.
C39_BufferOutlivesEviction == [][C39_Step]_<<flush, logStore, logBuffer, pc>>

====
